---------------------------- MODULE Spec2Model ----------------------------
(***************************************************************************)
(* Verification model of the Loom liquidity-provisioning bot               *)
(* (sapiencexyz/ts-bots, packages/loom).                                   *)
(*                                                                         *)
(* Three specifications share this module:                                 *)
(*   SpecPrice   - the pure price/tick functions of PriceModel, applied to *)
(*                 inputs drawn from bounded sets;                         *)
(*   SpecTracker - PositionTracker on its own, driven through its public   *)
(*                 interface (addPosition, removePosition, timer ticks);   *)
(*   SpecBot     - LoomBot wired to LPManager, PositionTracker and the     *)
(*                 chain: attestation handling, monitoring ticks and the   *)
(*                 asynchronous adjustment handlers, interleaved at the    *)
(*                 awaits of the source.                                   *)
(*                                                                         *)
(* Numbers: prices and likelihoods are fixed-point integers, 1.0 being     *)
(* PriceScale (so that epsilon = 1e-6 is the unit 1).  A JavaScript number *)
(* that may be NaN is a record [nan, v].  Time is an integer clock.        *)
(***************************************************************************)
EXTENDS Integers, Sequences, FiniteSets, TLC

(***************************************************************************)
(* Bounds of the model.                                                    *)
(***************************************************************************)
MaxTime == 5          \* the clock runs over 1..MaxTime
MaxCooldown == 3      \* riskManagement.cooldownPeriod is drawn from 0..MaxCooldown
MaxTokens == 3        \* token ids the chain can mint: 1..MaxTokens
MaxHandlers == 2      \* adjustment handlers that can be in flight at once
MaxRestarts == 1      \* process restarts
MaxTracked == 2       \* positions handed to a tracker that is driven on its own
MaxMarkets == 2       \* markets of the Sapience API
MaxTimers == 6        \* timers a tracker sets
MaxBalance == 2       \* the wallet holds the collateral of 0..MaxBalance positions

(***************************************************************************)
(* Program constants.                                                      *)
(***************************************************************************)
tickSpacing == 200
epsilon == 1
PriceScale == 1000000
requiredConsecutiveDeviations == 2
deviationThreshold == 2     \* lpManagement.deviationThreshold, in percent
MaxUint256 == 2             \* ethers.MaxUint256: an allowance that is not used up
requiredAmount == 1         \* the collateral amount of one position
ZeroAddress == "zero"
WalletAddress == "wallet"
OtherAddress == "other"
AllowanceLevels == 0..MaxUint256

VARIABLES
  \* ---- SpecPrice: one call of a PriceModel function
  pmOp,        \* which function is called
  pmArgs,      \* its arguments
  pmRet,       \* its outcome, [done |-> FALSE, ...] before the call
  \* ---- the environment: clock, configuration, chain
  now,                 \* Date.now(), in units of the monitoring interval
  cooldownPeriod,      \* config.riskManagement.cooldownPeriod
  marketPrice,         \* current price of each market (getSqrtPriceX96)
  \* ---- LPPosition objects of this process, by position id (= token id)
  positions,           \* id -> [marketId, targetPrice, isActive]
  \* ---- PositionTracker
  activePositions,     \* Map id -> [consecutiveDeviations, lastChecked]
  cooldownEndTimes,    \* Map id -> time
  trackerIsRunning,    \* isRunning
  nextTickAt,          \* when the monitoring timer fires (0: no timer set)
  tickPc,              \* "idle" | "reading" (checkPosition awaits getMarketData)
  tickCursor,          \* the position the Map iterator is at
  tickCount,           \* consecutiveDeviations of the state object held across the await
  \* ---- the chain and the markets
  chainPos,            \* token id -> [marketId, open, by]: positions of the wallet
  marketSettled,       \* getMarketData().settled, per market
  endTime,             \* getMarketData().endTime, per market
  allowance,           \* collateral allowance of the wallet for the Sapience contract
  \* ---- LoomBot
  maxPositions,        \* config.riskManagement.maxPositions
  lpManager,           \* TRUE once the LPManager has been created
  listener,            \* TRUE when positionNeedsAdjustment has a listener
  botIsRunning,        \* LoomBot.isRunning
  hasProcessedFirstAttestation,
  processedAttestations,
  att,                 \* the processAttestation call in flight, if any
  handlers,            \* the handlePositionAdjustment calls in flight
  restarts,            \* how often the process has been restarted
  \* ---- MarketLPAgent and the loop of main
  agent,               \* the runOnce call: [pc, markets, i, createdCount, wakeAt, dryRun]
  lastRunCutoff,       \* MarketLPAgent.lastRunCutoff (0: undefined)
  stopping,            \* the flag of the loop
  exited,              \* TRUE once process.exit has been called
  balance,             \* collateral balance of the wallet
  api,                 \* the markets of the Sapience API, by market id
  \* ---- the timers of PositionTracker.start / stop / scheduleNextCheck
  monitoringTimer,     \* the handle of the latest setTimeout (0: undefined)
  pendingTimers,       \* the timers that are set, not cleared and not fired
  runsInProgress,      \* the timer callbacks that await checkAllPositions
  timersSet,           \* how many timers have been set
  \* ---- observations (history variables, read by the claims only)
  obs,                 \* what the latest tracker step did
  prevRead,            \* id -> outcome of the latest successful price read
  failedSince,         \* id -> a price read failed since the latest successful one
  lastEmitAt,          \* id -> time of the latest positionNeedsAdjustment (0: none)
  tickRemoved,         \* ids the monitoring loop removed as inactive
  agObs,               \* what the latest step of the agent did
  haltedMarkets,       \* markets whose creation was halted for insufficient collateral
  \* ---- one call of retry(fn, maxAttempts, delay)
  retryCall            \* [pc, maxAttempts, delay, attempt, calls, outcomes, promise, sleepFor]

pmVars == <<pmOp, pmArgs, pmRet>>
envVars == <<now, cooldownPeriod, marketPrice>>
trackerVars == <<activePositions, cooldownEndTimes, trackerIsRunning, nextTickAt, tickPc, tickCursor, tickCount>>
obsVars == <<obs, prevRead, failedSince, lastEmitAt, tickRemoved>>
chainVars == <<chainPos, marketSettled, endTime, allowance>>
agentVars == <<agent, lastRunCutoff, stopping, exited, balance, api, agObs, haltedMarkets>>
lifeVars == <<monitoringTimer, pendingTimers, runsInProgress, timersSet>>
retryVars == <<retryCall>>
botVars == <<maxPositions, lpManager, listener, botIsRunning, hasProcessedFirstAttestation, processedAttestations, att, restarts>>

(***************************************************************************)
(* JavaScript numbers and Math helpers.                                    *)
(***************************************************************************)
Num(x) == [nan |-> FALSE, v |-> x]
NaN == [nan |-> TRUE, v |-> 0]

Max(a, b) == IF a >= b THEN a ELSE b
Min(a, b) == IF a <= b THEN a ELSE b

\* Math.max / Math.min: NaN if either argument is NaN
MathMax(a, b) == IF a.nan \/ b.nan THEN NaN ELSE Num(Max(a.v, b.v))
MathMin(a, b) == IF a.nan \/ b.nan THEN NaN ELSE Num(Min(a.v, b.v))

(***************************************************************************)
(* Math.log(price) / Math.log(1.0001) for the prices the model uses, as    *)
(* the pair <<Math.floor(raw), Math.ceil(raw)>>.  The table holds the      *)
(* values the IEEE-754 double computation of the source yields; keys are   *)
(* prices in units of epsilon.                                             *)
(***************************************************************************)
RawTickTable ==
   (1 :> <<-138163, -138162>>) @@ (5000 :> <<-52986, -52985>>) @@ (9500 :> <<-46567, -46566>>) @@
   (10000 :> <<-46055, -46054>>) @@ (10500 :> <<-45567, -45566>>) @@ (15000 :> <<-42000, -41999>>) @@
   (19500 :> <<-39376, -39375>>) @@ (20000 :> <<-39123, -39122>>) @@ (20500 :> <<-38876, -38875>>) @@
   (25000 :> <<-36891, -36890>>) @@ (35000 :> <<-33526, -33525>>) @@ (45000 :> <<-31013, -31012>>) @@
   (75000 :> <<-25904, -25903>>) @@ (95000 :> <<-23540, -23539>>) @@ (99500 :> <<-23078, -23077>>) @@
   (100000 :> <<-23028, -23027>>) @@ (100500 :> <<-22978, -22977>>) @@ (105000 :> <<-22540, -22539>>) @@
   (110000 :> <<-22074, -22073>>) @@ (120000 :> <<-21204, -21203>>) @@ (125000 :> <<-20796, -20795>>) @@
   (200000 :> <<-16096, -16095>>) @@ (230000 :> <<-14698, -14697>>) @@ (275000 :> <<-12911, -12910>>) @@
   (295000 :> <<-12209, -12208>>) @@ (299500 :> <<-12058, -12057>>) @@ (300000 :> <<-12041, -12040>>) @@
   (300500 :> <<-12024, -12023>>) @@ (305000 :> <<-11876, -11875>>) @@ (325000 :> <<-11240, -11239>>) @@
   (400000 :> <<-9164, -9163>>) @@ (475000 :> <<-7445, -7444>>) @@ (490000 :> <<-7134, -7133>>) @@
   (495000 :> <<-7033, -7032>>) @@ (499500 :> <<-6942, -6941>>) @@ (500000 :> <<-6932, -6931>>) @@
   (500500 :> <<-6922, -6921>>) @@ (505000 :> <<-6833, -6832>>) @@ (510000 :> <<-6734, -6733>>) @@
   (520000 :> <<-6540, -6539>>) @@ (525000 :> <<-6444, -6443>>) @@ (600000 :> <<-5109, -5108>>) @@
   (630000 :> <<-4621, -4620>>) @@ (705000 :> <<-3496, -3495>>) @@ (725000 :> <<-3216, -3215>>) @@
   (729500 :> <<-3155, -3154>>) @@ (730000 :> <<-3148, -3147>>) @@ (730500 :> <<-3141, -3140>>) @@
   (735000 :> <<-3080, -3079>>) @@ (755000 :> <<-2811, -2810>>) @@ (800000 :> <<-2232, -2231>>) @@
   (830000 :> <<-1864, -1863>>) @@ (875000 :> <<-1336, -1335>>) @@ (890000 :> <<-1166, -1165>>) @@
   (895000 :> <<-1110, -1109>>) @@ (899500 :> <<-1060, -1059>>) @@ (900000 :> <<-1054, -1053>>) @@
   (900500 :> <<-1049, -1048>>) @@ (905000 :> <<-999, -998>>) @@ (925000 :> <<-780, -779>>) @@
   (965000 :> <<-357, -356>>) @@ (985000 :> <<-152, -151>>) @@ (989500 :> <<-106, -105>>) @@
   (990000 :> <<-101, -100>>) @@ (990500 :> <<-96, -95>>) @@ (995000 :> <<-51, -50>>) @@
   (999999 :> <<-1, 0>>)

\* Math.floor(Math.log(price) / Math.log(1.0001))
rawTickFloor(price) == RawTickTable[price][1]
\* Math.ceil(Math.log(price) / Math.log(1.0001))
rawTickCeil(price) == RawTickTable[price][2]

(***************************************************************************)
(* PriceModel (AttestationParser carries the same likelihoodToPrice).      *)
(***************************************************************************)
\* mutant: the upper bound of the validity test is missing
isValidLikelihood_NoUpper(likelihood) ==
  ~likelihood.nan /\ likelihood.v >= 0

isValidLikelihood(likelihood) ==
  ~likelihood.nan /\ likelihood.v >= 0 /\ likelihood.v <= PriceScale

\* mutant: the likelihood is returned unclamped
likelihoodToPrice_NoClamp(likelihood, minPrice, maxPrice) ==
  IF ~isValidLikelihood(likelihood)
    THEN [threw |-> TRUE, value |-> NaN]
    ELSE [threw |-> FALSE, value |-> likelihood]

likelihoodToPrice(likelihood, minPrice, maxPrice) ==
  IF ~isValidLikelihood(likelihood)
    THEN [threw |-> TRUE, value |-> NaN]
    ELSE [threw |-> FALSE,
          value |-> MathMax(Num(minPrice), MathMin(Num(maxPrice), likelihood))]

\* mutant: the tick is not snapped to the spacing
nearestUsableTick_NoSnap(tick, spacing) == tick

\* mutant: snaps downwards (floor) instead of to the nearest usable tick
nearestUsableTick_Floor(tick, spacing) == (tick \div spacing) * spacing

\* Math.round(tick / tickSpacing) * tickSpacing; Math.round rounds halves up
nearestUsableTick(tick, spacing) == ((2 * tick + spacing) \div (2 * spacing)) * spacing

NoRange == [lowerTick |-> 0, upperTick |-> 0, path |-> "none",
            rawLowerFloor |-> 0, rawUpperCeil |-> 0,
            snappedLower |-> 0, snappedUpper |-> 0]

\* mutant: the range is not clamped
clampToMarketBounds_NoClamp(lowerTick, upperTick, minTick, maxTick) ==
  [lowerTick |-> lowerTick, upperTick |-> upperTick, inverted |-> FALSE]

\* the market-bound clamp of priceToTicks: the clamped range, or the
\* market bounds when clamping inverts it
clampToMarketBounds(lowerTick, upperTick, minTick, maxTick) ==
  LET clampedLower == Max(lowerTick, minTick)
      clampedUpper == Min(upperTick, maxTick)
  IN  IF clampedLower >= clampedUpper
      THEN [lowerTick |-> minTick, upperTick |-> maxTick, inverted |-> TRUE]
      ELSE [lowerTick |-> clampedLower, upperTick |-> clampedUpper, inverted |-> FALSE]

\* mutant: the market bounds are ignored
catchInvalidTickRange_DefaultOnly(currentTick, hasBounds, minTick, maxTick) ==
  [lowerTick |-> nearestUsableTick(currentTick - 1000, tickSpacing),
   upperTick |-> nearestUsableTick(currentTick + 1000, tickSpacing),
   path |-> "catchDefaultRange"]

\* the catch block of priceToTicks
catchInvalidTickRange(currentTick, hasBounds, minTick, maxTick) ==
  LET fallbackRange == (1000 \div tickSpacing) * tickSpacing
  IN  IF hasBounds
      THEN [lowerTick |-> minTick, upperTick |-> maxTick, path |-> "catchMarketBounds"]
      ELSE [lowerTick |-> nearestUsableTick(currentTick - fallbackRange, tickSpacing),
            upperTick |-> nearestUsableTick(currentTick + fallbackRange, tickSpacing),
            path |-> "catchDefaultRange"]

\* the price bounds PriceModel.priceToTicks converts to ticks
priceModelBounds(targetPrice, concentrationRange) ==
  LET halfRange == concentrationRange \div 2
  IN  [lowerPrice |-> Max(epsilon, targetPrice - halfRange),
       upperPrice |-> Min(PriceScale - epsilon, targetPrice + halfRange)]

\* LPManager.calculatePriceRange, with the configured concentrationRange
calculatePriceRange(targetPrice, concentrationRange) ==
  LET halfRange == concentrationRange \div 2
  IN  [lower |-> Max(epsilon, targetPrice - halfRange),
       upper |-> Min(PriceScale - epsilon, targetPrice + halfRange),
       center |-> targetPrice]

\* the price bounds AttestationParser.priceToTicks converts to ticks:
\* targetPrice * (1 - halfRange) and targetPrice * (1 + halfRange).  Target
\* prices are multiples of 0.01 and half ranges multiples of 0.0001, so the
\* fixed-point products below are exact.
attestationParserBounds(targetPrice, concentrationRange) ==
  LET halfRange == concentrationRange \div 2
  IN  [lowerPrice |-> ((targetPrice \div 10000) * (PriceScale - halfRange)) \div 100,
       upperPrice |-> ((targetPrice \div 10000) * (PriceScale + halfRange)) \div 100]

priceToTicks(targetPrice, currentTick, concentrationRange, hasBounds, baseAssetMinPriceTick, baseAssetMaxPriceTick) ==
  LET lowerPrice == priceModelBounds(targetPrice, concentrationRange).lowerPrice
      upperPrice == priceModelBounds(targetPrice, concentrationRange).upperPrice
      flooredLower == rawTickFloor(lowerPrice)
      ceiledUpper == rawTickCeil(upperPrice)
      snappedLower == nearestUsableTick(flooredLower, tickSpacing)
      snappedUpper == nearestUsableTick(ceiledUpper, tickSpacing)
      clamped == IF hasBounds
                 THEN clampToMarketBounds(snappedLower, snappedUpper,
                                          baseAssetMinPriceTick, baseAssetMaxPriceTick)
                 ELSE [lowerTick |-> snappedLower, upperTick |-> snappedUpper,
                       inverted |-> FALSE]
      mid == [rawLowerFloor |-> flooredLower, rawUpperCeil |-> ceiledUpper,
              snappedLower |-> snappedLower, snappedUpper |-> snappedUpper]
  IN  IF clamped.lowerTick < clamped.upperTick
        THEN mid @@ [lowerTick |-> clamped.lowerTick, upperTick |-> clamped.upperTick,
                     path |-> IF clamped.inverted THEN "fullMarketRange" ELSE "computed"]
        ELSE \* throw new Error("Invalid tick range"), caught by the catch block
             mid @@ catchInvalidTickRange(currentTick, hasBounds,
                                          baseAssetMinPriceTick, baseAssetMaxPriceTick)

(***************************************************************************)
(* SpecPrice: the inputs of one call are drawn at Init, the call is one    *)
(* action.                                                                 *)
(***************************************************************************)
Likelihoods ==
  {NaN} \cup {Num(x) : x \in {-500000, -1, 0, 1, 5000, 10000, 500000, 730000,
                              990000, 995000, 999999, 1000000, 1000001, 1500000}}

\* <<minPrice, maxPrice>>; the first pair is the default of the source
PriceBounds ==
  {<<10000, 990000>>, <<0, 1000000>>, <<100000, 900000>>, <<500000, 500000>>,
   <<900000, 100000>>}

TargetPrices == {10000, 20000, 100000, 300000, 500000, 730000, 900000, 990000}
ConcentrationRanges == {0, 1000, 10000, 50000, 200000, 1000000}
CurrentTicks == {-6932, 0}

\* market tick bounds: absent, or <<baseAssetMinPriceTick, baseAssetMaxPriceTick>>
NoBounds == <<FALSE, 0, 0>>
MarketBounds ==
  {NoBounds} \cup
  {<<TRUE, b[1], b[2]>> : b \in {<<-1000, 1000>>, <<-7000, -3000>>, <<-46000, 0>>,
                                  <<-7350, -3150>>, <<-3200, -3200>>, <<1000, -1000>>}}

DefaultL2PArgs == [likelihood |-> Num(500000), minPrice |-> 10000, maxPrice |-> 990000]
DefaultP2TArgs == [targetPrice |-> 500000, currentTick |-> 0, concentrationRange |-> 50000,
                   hasBounds |-> FALSE, minTick |-> 0, maxTick |-> 0, tick |-> 0,
                   lowerTick |-> 0, upperTick |-> 0]

\* createLPPosition clamps the range it is given to the market's tick bounds;
\* these ticks go into the transaction and into the returned entity
clampTicks(lowerTick, upperTick, minTick, maxTick) ==
  [lowerTick |-> Max(lowerTick, minTick), upperTick |-> Min(upperTick, maxTick)]

\* ranges a caller passes: inside, across, above and below the market bounds
CallerRanges ==
  {<<-7000, -6800>>, <<-800, 800>>, <<-1200, 1200>>, <<2000, 4000>>, <<-50000, -48000>>,
   <<-2800, 200>>}
MarketTickBounds == {<<-1000, 1000>>, <<-7000, -3000>>, <<-46000, 0>>}
NoTicks == [lowerTick |-> 0, upperTick |-> 0]

(***************************************************************************)
(* Tick math of LPManager.  A positive double is kept to nine significant  *)
(* decimal digits as m * 10^e with 10^8 <= m < 10^9 (m = 0 for zero);      *)
(* Math.pow(1.0001, tick) and its Math.sqrt are tabulated with the values  *)
(* the IEEE-754 double computation yields, the products, the floor and the *)
(* square are computed.                                                    *)
(***************************************************************************)
Dec(m, e) == [m |-> m, e |-> e]
DecZero == Dec(0, 0)

RECURSIVE Pow10(_)
Pow10(n) == IF n <= 0 THEN 1 ELSE 10 * Pow10(n - 1)

RECURSIVE DecNormal(_, _)
DecNormal(m, e) ==
  IF m = 0 THEN DecZero
  ELSE IF m < 100000000 THEN DecNormal(m * 10, e - 1)
  ELSE Dec(m, e)

\* a * b, from the high and low digits of the two mantissas
DecMul(a, b) ==
  LET ah == a.m \div 100000
      al == a.m % 100000
      bh == b.m \div 100000
      bl == b.m % 100000
      cross == ah * bl + al * bh
      low == (al \div 10) * (bl \div 10)
  IN  IF a.m = 0 \/ b.m = 0 THEN DecZero
      ELSE IF ah * bh < 10000000
      THEN DecNormal(ah * bh * 100 + cross \div 1000 + low \div 1000000, a.e + b.e + 8)
      ELSE DecNormal(ah * bh * 10 + cross \div 10000 + low \div 10000000, a.e + b.e + 9)

\* Math.floor
DecFloor(a) ==
  IF a.e >= 0 THEN a
  ELSE IF a.e <= -9 THEN DecZero
  ELSE DecNormal(a.m \div Pow10(-a.e), 0)

\* 2 ** 96 and 1 / 2 ** 96
TwoPow96 == Dec(792281625, 20)
TwoPowMinus96 == Dec(126217744, -37)

\* the ticks of the pool, -887272 .. 887272, are sampled
RoundTripTicks ==
  {-887272, -887230, -443636, -138163, -46000, -6932, -200, -1, 0, 1, 200, 46000,
   443636, 887272}

\* Math.pow(1.0001, tick)
PowTable ==
  (-887272 :> Dec(293895680, -47)) @@ (-887230 :> Dec(295132576, -47)) @@
  (-443636 :> Dec(542121463, -28)) @@ (-138163 :> Dec(999901331, -15)) @@
  (-46000 :> Dec(100541477, -10)) @@ (-6932 :> Dec(499990919, -9)) @@
  (-200 :> Dec(980199653, -9)) @@ (-1 :> Dec(999900009, -9)) @@
  (0 :> Dec(100000000, -8)) @@ (1 :> Dec(100009999, -8)) @@
  (200 :> Dec(102020031, -8)) @@ (46000 :> Dec(994614384, -7)) @@
  (443636 :> Dec(184460507, 11)) @@ (887272 :> Dec(340256786, 30))

\* Math.sqrt(Math.pow(1.0001, tick))
SqrtTable ==
  (-887272 :> Dec(542121463, -28)) @@ (-887230 :> Dec(543261057, -28)) @@
  (-443636 :> Dec(232835019, -18)) @@ (-138163 :> Dec(999950664, -12)) @@
  (-46000 :> Dec(100270373, -9)) @@ (-6932 :> Dec(707100360, -9)) @@
  (-200 :> Dec(990050328, -9)) @@ (-1 :> Dec(999950003, -9)) @@
  (0 :> Dec(100000000, -8)) @@ (1 :> Dec(100004999, -8)) @@
  (200 :> Dec(101004966, -8)) @@ (46000 :> Dec(997303556, -8)) @@
  (443636 :> Dec(429488657, 1)) @@ (887272 :> Dec(184460507, 11))

tickToPrice(tick) == PowTable[tick]

tickToSqrtPriceX96_NoScale(tick) == DecFloor(SqrtTable[tick])

tickToSqrtPriceX96(tick) == DecFloor(DecMul(SqrtTable[tick], TwoPow96))

sqrtPriceToPrice_NoSquare(sqrtPriceX96) == DecMul(sqrtPriceX96, TwoPowMinus96)

sqrtPriceToPrice(sqrtPriceX96) ==
  LET sqrtPrice == DecMul(sqrtPriceX96, TwoPowMinus96)
  IN  DecMul(sqrtPrice, sqrtPrice)
NoPriceRange == [lower |-> 0, upper |-> 0, center |-> 0]
NoPrices == [lowerPrice |-> 0, upperPrice |-> 0]
NoRet ==
  [done |-> FALSE, threw |-> FALSE, value |-> NaN, range |-> NoRange,
   priceRange |-> NoPriceRange, bounds |-> NoPrices,
   sqrtPriceX96 |-> DecZero, price |-> DecZero,
   liquidityParams |-> NoTicks, position |-> NoTicks]

(***************************************************************************)
(* PositionTracker (services/PositionTracker.ts).  Time is counted in      *)
(* units of the monitoring interval; a tick of the monitoring loop is      *)
(* split where the code awaits: the timer callback runs the loop up to the *)
(* first price read, and each resolved read runs it on to the next one.    *)
(***************************************************************************)
Markets == {1}
Prices == {500000, 600000}
PositionIds == 1..MaxTokens

Abs(x) == IF x < 0 THEN -x ELSE x
Without(f, k) == [j \in DOMAIN f \ {k} |-> f[j]]
With(f, k, v) == [j \in DOMAIN f \cup {k} |-> IF j = k THEN v ELSE f[j]]

NoObs ==
  [kind |-> "none", at |-> 0, readId |-> 0, outcome |-> "none", prev |-> "none",
   emit |-> 0, prevEmitAt |-> 0, removed |-> {}, skipped |-> {}, reading |-> 0,
   error |-> 0, receipt |-> <<>>, created |-> 0, failedBefore |-> FALSE,
   entity |-> [tokenId |-> 0, marketId |-> 0, lowerTick |-> 0, upperTick |-> 0,
               targetPrice |-> 0, isActive |-> FALSE]]

isPriceOutsideDeviation(currentPrice, targetPrice) ==
  Abs(currentPrice - targetPrice) * 100 > deviationThreshold * targetPrice

\* mutant: no position is ever in cooldown
isInCooldown_Never(cd, positionId, t) == FALSE

isInCooldown(cd, positionId, t) ==
  IF positionId \in DOMAIN cd /\ cd[positionId] # 0 THEN t < cd[positionId] ELSE FALSE

getRequiredConsecutiveDeviations == requiredConsecutiveDeviations

\* mutant: three consecutive deviations are required
checkPosition_Three(consecutiveDeviations, currentPrice, targetPrice) ==
  IF isPriceOutsideDeviation(currentPrice, targetPrice)
  THEN IF consecutiveDeviations + 1 >= 3
       THEN [consecutiveDeviations |-> 0, emit |-> TRUE]
       ELSE [consecutiveDeviations |-> consecutiveDeviations + 1, emit |-> FALSE]
  ELSE [consecutiveDeviations |-> 0, emit |-> FALSE]

\* checkPosition after the price read: the new counter and whether
\* positionNeedsAdjustment is emitted (and the cooldown set)
\* mutant: the counter is not reset when the request is emitted
checkPosition_NoReset(consecutiveDeviations, currentPrice, targetPrice) ==
  IF isPriceOutsideDeviation(currentPrice, targetPrice)
  THEN [consecutiveDeviations |-> consecutiveDeviations + 1,
        emit |-> consecutiveDeviations + 1 >= getRequiredConsecutiveDeviations]
  ELSE [consecutiveDeviations |-> 0, emit |-> FALSE]

checkPosition(consecutiveDeviations, currentPrice, targetPrice) ==
  IF isPriceOutsideDeviation(currentPrice, targetPrice)
  THEN IF consecutiveDeviations + 1 >= getRequiredConsecutiveDeviations
       THEN [consecutiveDeviations |-> 0, emit |-> TRUE]
       ELSE [consecutiveDeviations |-> consecutiveDeviations + 1, emit |-> FALSE]
  ELSE [consecutiveDeviations |-> 0, emit |-> FALSE]

setCooldown(cd, positionId, t) == With(cd, positionId, t + cooldownPeriod)

\* mutant: the cooldown test comes before the isActive test
RECURSIVE checkAllPositions_CooldownFirst(_, _, _, _, _)
checkAllPositions_CooldownFirst(cursor, ap, cd, removed, skipped) ==
  LET rest == {id \in DOMAIN ap : id > cursor} IN
  IF rest = {}
  THEN [ap |-> ap, cd |-> cd, removed |-> removed, skipped |-> skipped, reading |-> 0]
  ELSE LET positionId == CHOOSE id \in rest : \A j \in rest : id <= j IN
       IF isInCooldown(cd, positionId, now)
       THEN checkAllPositions_CooldownFirst(positionId, ap, cd, removed, skipped \cup {positionId})
       ELSE IF ~positions[positionId].isActive
       THEN checkAllPositions_CooldownFirst(positionId, Without(ap, positionId), Without(cd, positionId),
                                            removed \cup {positionId}, skipped)
       ELSE [ap |-> ap, cd |-> cd, removed |-> removed, skipped |-> skipped,
             reading |-> positionId]

\* the for-of loop of checkAllPositions from the entry after `cursor` up to
\* the next await (or the end of the Map); Map iteration is in insertion
\* order, which is the order of the ids
RECURSIVE checkAllPositions(_, _, _, _, _)
checkAllPositions(cursor, ap, cd, removed, skipped) ==
  LET rest == {id \in DOMAIN ap : id > cursor} IN
  IF rest = {}
  THEN [ap |-> ap, cd |-> cd, removed |-> removed, skipped |-> skipped, reading |-> 0]
  ELSE LET positionId == CHOOSE id \in rest : \A j \in rest : id <= j IN
       IF ~positions[positionId].isActive
       THEN checkAllPositions(positionId, Without(ap, positionId), Without(cd, positionId),
                              removed \cup {positionId}, skipped)
       ELSE IF isInCooldown(cd, positionId, now)
       THEN checkAllPositions(positionId, ap, cd, removed, skipped \cup {positionId})
       ELSE [ap |-> ap, cd |-> cd, removed |-> removed, skipped |-> skipped,
             reading |-> positionId]

\* mutant: no timer is set
scheduleNextCheck_Never == IF trackerIsRunning THEN 0 ELSE 0

\* scheduleNextCheck: the timer is set one interval ahead while running
scheduleNextCheck == IF trackerIsRunning THEN now + 1 ELSE 0

\* the state the loop leaves when it ran from `cursor` with the Maps ap, cd
LoopOn(cursor, ap, cd, o) ==
  LET r == checkAllPositions(cursor, ap, cd, {}, {}) IN
  /\ activePositions' = r.ap
  /\ cooldownEndTimes' = r.cd
  /\ tickRemoved' = tickRemoved \cup r.removed
  /\ obs' = [o EXCEPT !.removed = r.removed, !.skipped = r.skipped, !.reading = r.reading]
  /\ IF r.reading # 0
     THEN /\ tickPc' = "reading"
          /\ tickCursor' = r.reading
          /\ tickCount' = r.ap[r.reading].consecutiveDeviations
          /\ nextTickAt' = 0
     ELSE /\ tickPc' = "idle"
          /\ tickCursor' = 0
          /\ tickCount' = 0
          /\ nextTickAt' = scheduleNextCheck

\* LoomBot.handlePositionAdjustment, called by emit('positionNeedsAdjustment'):
\* it runs up to its first await, getMarketData, in the emitting step
HandlerSlots == 1..MaxHandlers
FreeHandler == [pc |-> "free", position |-> 0, currentPrice |-> 0, newId |-> 0, startedAt |-> 0]
FreeSlots(hs) == {h \in HandlerSlots : hs[h].pc = "free"}

handlePositionAdjustment(hs, positionId, currentPrice) ==
  IF ~lpManager
  THEN hs
  ELSE LET h == CHOOSE f \in FreeSlots(hs) : \A g \in FreeSlots(hs) : f <= g
       IN  [hs EXCEPT ![h] = [pc |-> "getMarketData", position |-> positionId,
                              currentPrice |-> currentPrice, newId |-> 0,
                              startedAt |-> now]]

\* the setTimeout callback of scheduleNextCheck: checkAllPositions from the
\* first entry of the Map
TimerFires ==
  /\ tickPc = "idle"
  /\ nextTickAt # 0
  /\ now >= nextTickAt
  /\ LoopOn(0, activePositions, cooldownEndTimes, [NoObs EXCEPT !.kind = "tick", !.at = now])
  /\ UNCHANGED <<agentVars, lifeVars, retryVars, pmVars, envVars, positions, trackerIsRunning, prevRead, failedSince, lastEmitAt,
                 chainVars, botVars, handlers>>

\* getMarketData of checkPosition resolves (ok) or rejects (~ok); the rest of
\* checkPosition runs on the state object taken before the await, then the
\* loop goes on
\* mutant: a failed read resets the counter
catchReadError_Reset(state) == [state EXCEPT !.consecutiveDeviations = 0]

\* the catch block of checkPosition: the error is logged, the state is kept
catchReadError(state) == state

ReadResolves ==
  /\ tickPc = "reading"
  /\ \E ok \in BOOLEAN :
       LET positionId == tickCursor
           position == positions[positionId]
           currentPrice == marketPrice[position.marketId]
           needsAdjustment == isPriceOutsideDeviation(currentPrice, position.targetPrice)
           r == checkPosition(tickCount, currentPrice, position.targetPrice)
           emits == ok /\ r.emit
           ap == IF positionId \in DOMAIN activePositions
                 THEN [activePositions EXCEPT
                         ![positionId] =
                            IF ok
                            THEN [consecutiveDeviations |-> r.consecutiveDeviations,
                                  lastChecked |-> now]
                            ELSE catchReadError(activePositions[positionId])]
                 ELSE activePositions
           cd == IF emits THEN setCooldown(cooldownEndTimes, positionId, now)
                 ELSE cooldownEndTimes
           o == [NoObs EXCEPT !.kind = "tick", !.at = now, !.readId = positionId,
                              !.outcome = IF ~ok THEN "fail"
                                          ELSE IF needsAdjustment THEN "dev" ELSE "in",
                              !.prev = prevRead[positionId],
                              !.failedBefore = failedSince[positionId],
                              !.emit = IF emits THEN positionId ELSE 0,
                              !.prevEmitAt = lastEmitAt[positionId]]
       IN  /\ LoopOn(positionId, ap, cd, o)
           /\ prevRead' = IF ok
                          THEN [prevRead EXCEPT ![positionId] =
                                  IF emits THEN "emit"
                                  ELSE IF needsAdjustment THEN "dev" ELSE "in"]
                          ELSE prevRead
           /\ failedSince' = [failedSince EXCEPT ![positionId] = ~ok]
           /\ lastEmitAt' = IF emits THEN [lastEmitAt EXCEPT ![positionId] = now]
                            ELSE lastEmitAt
           /\ emits /\ listener /\ lpManager => FreeSlots(handlers) # {}
           /\ handlers' = IF emits /\ listener
                          THEN handlePositionAdjustment(handlers, positionId, currentPrice)
                          ELSE handlers
  /\ UNCHANGED <<agentVars, lifeVars, retryVars, pmVars, envVars, positions, trackerIsRunning, chainVars, botVars>>

\* ---- the callers of the tracker and the world around it
Advance ==
  /\ now < MaxTime
  /\ now' = now + 1
  /\ obs' = NoObs
  /\ UNCHANGED <<agentVars, lifeVars, retryVars, pmVars, cooldownPeriod, marketPrice, positions, trackerVars, prevRead, failedSince,
                 lastEmitAt, tickRemoved, chainVars, botVars, handlers>>

SetPrice ==
  /\ \E m \in Markets, p \in Prices :
       /\ marketPrice[m] # p
       /\ marketPrice' = [marketPrice EXCEPT ![m] = p]
  /\ obs' = NoObs
  /\ UNCHANGED <<agentVars, lifeVars, retryVars, pmVars, now, cooldownPeriod, positions, trackerVars, prevRead, failedSince,
                 lastEmitAt, tickRemoved, chainVars, botVars, handlers>>

\* addPosition(position) for a position object created by the caller
AddPosition ==
  /\ \E id \in PositionIds, m \in Markets :
       /\ id = Cardinality(DOMAIN positions) + 1
       /\ id <= MaxTracked
       /\ positions' = With(positions, id,
                            [marketId |-> m, targetPrice |-> 500000, isActive |-> TRUE])
       /\ activePositions' = With(activePositions, id,
                                  [consecutiveDeviations |-> 0, lastChecked |-> now])
  /\ obs' = NoObs
  /\ UNCHANGED <<agentVars, lifeVars, retryVars, pmVars, envVars, cooldownEndTimes, trackerIsRunning, nextTickAt, tickPc,
                 tickCursor, tickCount, prevRead, failedSince, lastEmitAt, tickRemoved, chainVars, botVars, handlers>>

\* removePosition(positionId)
RemovePosition ==
  /\ \E positionId \in DOMAIN activePositions :
       /\ activePositions' = Without(activePositions, positionId)
       /\ cooldownEndTimes' = Without(cooldownEndTimes, positionId)
  /\ obs' = NoObs
  /\ UNCHANGED <<agentVars, lifeVars, retryVars, pmVars, envVars, positions, trackerIsRunning, nextTickAt, tickPc,
                 tickCursor, tickCount, prevRead, failedSince, lastEmitAt, tickRemoved, chainVars, botVars, handlers>>

\* the owner of a position object clears its isActive flag
Deactivate ==
  /\ \E id \in DOMAIN positions :
       /\ positions[id].isActive
       /\ positions' = [positions EXCEPT ![id].isActive = FALSE]
  /\ obs' = NoObs
  /\ UNCHANGED <<agentVars, lifeVars, retryVars, pmVars, envVars, trackerVars, prevRead, failedSince, lastEmitAt, tickRemoved, chainVars, botVars, handlers>>

\* no MarketLPAgent
AgentMarkets == 1..MaxMarkets
NoAgent ==
  [pc |-> "none", markets |-> <<>>, i |-> 0, createdCount |-> 0, wakeAt |-> 0, dryRun |-> FALSE,
   likelihood |-> NaN]
NoMarket ==
  [address |-> FALSE, collateralAsset |-> FALSE, endTimestamp |-> 0, createdAt |-> 0,
   settled |-> FALSE]
NoContent == [parse |-> "none", probabilityYes |-> [type |-> "undefined", v |-> 0]]
NoAgObs ==
  [kind |-> "none", market |-> 0, considered |-> {}, balanceRead |-> "none", threw |-> FALSE,
   returned |-> FALSE, remaining |-> {}, content |-> NoContent]
AgentIdle ==
  /\ agent = NoAgent
  /\ lastRunCutoff = 0
  /\ stopping = FALSE
  /\ exited = FALSE
  /\ balance = 0
  /\ api = [m \in AgentMarkets |-> NoMarket]
  /\ agObs = NoAgObs
  /\ haltedMarkets = {}

\* the timers of a tracker that is left alone
LifeIdle ==
  /\ monitoringTimer = 0
  /\ pendingTimers = {}
  /\ runsInProgress = 0
  /\ timersSet = 0

\* no call of retry has been made
NoRetry ==
  [pc |-> "idle", maxAttempts |-> 0, delay |-> 0, attempt |-> 0, calls |-> 0,
   outcomes |-> <<>>, promise |-> [state |-> "pending", value |-> "none"], sleepFor |-> 0]
RetryIdle ==
  retryCall = NoRetry

PriceIdle ==
  /\ pmOp = "none"
  /\ pmArgs = DefaultL2PArgs @@ DefaultP2TArgs
  /\ pmRet = NoRet

NoAttestation ==
  [pc |-> "none", eventId |-> 0, marketId |-> 0, result |-> "none", newId |-> 0, runs |-> 0]

\* no LoomBot: the tracker has no listener and the chain is not written
BotIdle ==
  /\ chainPos = <<>>
  /\ marketSettled = [m \in Markets |-> FALSE]
  /\ endTime = [m \in Markets |-> MaxTime + 1]
  /\ allowance = 0
  /\ maxPositions = 1
  /\ lpManager = TRUE
  /\ listener = FALSE
  /\ botIsRunning = FALSE
  /\ hasProcessedFirstAttestation = FALSE
  /\ processedAttestations = {}
  /\ att = NoAttestation
  /\ handlers = [h \in HandlerSlots |-> FreeHandler]
  /\ restarts = 0

TrackerIdle ==
  /\ now = 1
  /\ cooldownPeriod = 0
  /\ marketPrice = [m \in Markets |-> 500000]
  /\ positions = <<>>
  /\ activePositions = <<>>
  /\ cooldownEndTimes = <<>>
  /\ trackerIsRunning = FALSE
  /\ nextTickAt = 0
  /\ tickPc = "idle"
  /\ tickCursor = 0
  /\ tickCount = 0
  /\ obs = NoObs
  /\ prevRead = [id \in PositionIds |-> "none"]
  /\ failedSince = [id \in PositionIds |-> FALSE]
  /\ lastEmitAt = [id \in PositionIds |-> 0]
  /\ tickRemoved = {}
  /\ BotIdle

\* the tracker has been constructed and start() has been called at time 1
InitTracker ==
  /\ PriceIdle
  /\ AgentIdle
  /\ LifeIdle
  /\ RetryIdle
  /\ BotIdle
  /\ now = 1
  /\ cooldownPeriod \in 0..MaxCooldown
  /\ marketPrice = [m \in Markets |-> 500000]
  /\ positions = <<>>
  /\ activePositions = <<>>
  /\ cooldownEndTimes = <<>>
  /\ trackerIsRunning = TRUE
  /\ nextTickAt = 2
  /\ tickPc = "idle"
  /\ tickCursor = 0
  /\ tickCount = 0
  /\ obs = NoObs
  /\ prevRead = [id \in PositionIds |-> "none"]
  /\ failedSince = [id \in PositionIds |-> FALSE]
  /\ lastEmitAt = [id \in PositionIds |-> 0]
  /\ tickRemoved = {}

(***************************************************************************)
(* LoomBot and LPManager (LoomBot.ts, services/LPManager.ts).  An async    *)
(* function is split where it awaits; a transaction changes the chain in   *)
(* the step that submits it and its sender resumes in a later step, when   *)
(* tx.wait() resolves.  createLPPosition up to the submission is one step. *)
(***************************************************************************)
EventIds == {1}
LaterEventIds == {1, 2}
OtherMarket == 2
tickVars == <<trackerIsRunning, nextTickAt, tickPc, tickCursor, tickCount>>
histVars == <<prevRead, failedSince, lastEmitAt, tickRemoved>>
marketVars == <<marketSettled, endTime>>
botRest == <<maxPositions, lpManager, listener, botIsRunning, hasProcessedFirstAttestation, processedAttestations, restarts>>

Lowest(S) == CHOOSE x \in S : \A y \in S : x <= y

\* the token id the next createLiquidityPosition mints
nextTokenId == Cardinality(DOMAIN chainPos) + 1

\* the first token of the wallet that is an unsettled LP position for the
\* market, 0 for null
\* mutant: no position is ever found
getCurrentLPPosition_Null(cp, marketId) == 0

getCurrentLPPosition(cp, marketId) ==
  LET found == {tokenId \in DOMAIN cp : cp[tokenId].open /\ cp[tokenId].marketId = marketId}
  IN  IF found = {} THEN 0 ELSE Lowest(found)

\* the LPPosition object getCurrentLPPosition builds for the token it found
currentLPPosition(tokenId, marketId) ==
  [tokenId |-> tokenId, marketId |-> marketId, lowerTick |-> 0, upperTick |-> 0,
   targetPrice |-> 0, isActive |-> TRUE]

hasMaxPositions == Cardinality(DOMAIN activePositions) >= maxPositions

\* the tracking Maps after addPosition / removePosition
addPosition(ap, positionId) ==
  With(ap, positionId, [consecutiveDeviations |-> 0, lastChecked |-> now])

removePosition(tr, positionId) ==
  [ap |-> Without(tr.ap, positionId), cd |-> Without(tr.cd, positionId)]

\* the listeners LoomBot registers on the LPManager
handlePositionCreated(ap, positionId) == addPosition(ap, positionId)

\* mutant: positionClosed leaves the tracker alone
handlePositionClosed_Keep(tr, positionId) == tr
handlePositionClosed(tr, positionId) == removePosition(tr, positionId)

\* handleAttestationEvent for the first attestation of this process, and
\* processAttestation up to its first await
\* mutant: only an attestation id seen before is skipped
skipsAttestation_OnlyDuplicates(e) == e \in processedAttestations

\* the two early returns of handleAttestationEvent
skipsAttestation(e) == hasProcessedFirstAttestation \/ e \in processedAttestations

\* handleAttestationEvent up to the first await of processAttestation, for
\* an event with an id of ids that may fail to parse.  An event that is
\* skipped or does not parse changes nothing; with observed it is recorded.
handleAttestationEvent(ids, observed) ==
  /\ listener
  /\ botIsRunning
  /\ \E e \in ids, m \in Markets, parsed \in BOOLEAN :
       IF skipsAttestation(e) \/ ~parsed
       THEN /\ observed
            /\ obs' = [NoObs EXCEPT !.kind = IF skipsAttestation(e)
                                              THEN "attestationSkipped"
                                              ELSE "attestationNotParsed",
                                    !.readId = e]
            /\ UNCHANGED <<processedAttestations, att, hasProcessedFirstAttestation,
                           lpManager, trackerIsRunning, nextTickAt>>
       ELSE /\ processedAttestations' = processedAttestations \cup {e}
            /\ att' = [pc |-> "getMarketData", eventId |-> e, marketId |-> m,
                       result |-> "running", newId |-> 0, runs |-> att.runs + 1]
            /\ hasProcessedFirstAttestation' = TRUE
            /\ lpManager' = TRUE
            /\ IF ~lpManager /\ ~trackerIsRunning
               THEN /\ trackerIsRunning' = TRUE
                    /\ nextTickAt' = now + 1
               ELSE UNCHANGED <<trackerIsRunning, nextTickAt>>
            /\ obs' = IF observed
                      THEN [NoObs EXCEPT !.kind = "attestationParsed", !.readId = e]
                      ELSE NoObs
  /\ UNCHANGED <<agentVars, lifeVars, retryVars, pmVars, envVars, positions, activePositions, cooldownEndTimes, tickPc,
                 tickCursor, tickCount, histVars, chainVars, maxPositions, listener,
                 botIsRunning, restarts, handlers>>

AttestationEvent == handleAttestationEvent(EventIds, FALSE)

\* the same handler with a later event among its inputs
LaterAttestationEvent == handleAttestationEvent(LaterEventIds, TRUE)

AttReturn(result) == att' = [att EXCEPT !.pc = "done", !.result = result]

\* getMarketData resolves: the settled, expired and capacity guards
AttGetMarketData ==
  /\ att.pc = "getMarketData"
  /\ \E ok \in BOOLEAN :
       IF ~ok THEN AttReturn("failed")
       ELSE IF marketSettled[att.marketId] THEN AttReturn("settled")
       ELSE IF now > endTime[att.marketId] THEN AttReturn("expired")
       ELSE IF hasMaxPositions THEN AttReturn("maxPositions")
       ELSE att' = [att EXCEPT !.pc = "getCurrentLPPosition"]
  /\ obs' = NoObs
  /\ UNCHANGED <<agentVars, lifeVars, retryVars, pmVars, envVars, positions, trackerVars, histVars, chainVars, botRest,
                 handlers>>

\* getCurrentLPPosition resolves: the existing-position check
AttGetCurrentLPPosition ==
  /\ att.pc = "getCurrentLPPosition"
  /\ \E ok \in BOOLEAN :
       IF ~ok
       THEN /\ AttReturn("failed")
            /\ obs' = NoObs
       ELSE IF getCurrentLPPosition(chainPos, att.marketId) # 0
       THEN /\ AttReturn("existingPosition")
            /\ obs' = [NoObs EXCEPT
                         !.kind = "existingPosition",
                         !.entity = currentLPPosition(
                                      getCurrentLPPosition(chainPos, att.marketId),
                                      att.marketId)]
       ELSE /\ att' = [att EXCEPT !.pc = "allowance"]
            /\ obs' = NoObs
  /\ UNCHANGED <<agentVars, lifeVars, retryVars, pmVars, envVars, positions, trackerVars, histVars, chainVars, botRest,
                 handlers>>

\* ensureCollateralApproval: currentAllowance < requiredAmount
needsApproval_Always(currentAllowance, required) == TRUE
needsApproval(currentAllowance, required) == currentAllowance < required

\* the createLiquidityPosition transaction is accepted only with enough
\* allowance; an unlimited allowance is not used up
canSpend(currentAllowance, required) == currentAllowance >= required
spend(currentAllowance, required) ==
  IF currentAllowance = MaxUint256 THEN currentAllowance ELSE currentAllowance - required

\* createLPPosition from its start (getMarketData, symbol, quote) to the
\* allowance read in ensureCollateralApproval
AttAllowance ==
  /\ att.pc = "allowance"
  /\ \E ok \in BOOLEAN :
       IF ~ok THEN AttReturn("failed")
       ELSE IF needsApproval(allowance, requiredAmount)
       THEN att' = [att EXCEPT !.pc = "approve"]
       ELSE att' = [att EXCEPT !.pc = "createLiquidityPosition"]
  /\ obs' = NoObs
  /\ UNCHANGED <<agentVars, lifeVars, retryVars, pmVars, envVars, positions, trackerVars, histVars, chainVars, botRest,
                 handlers>>

\* approve(spender, MaxUint256) is mined, or is rejected
AttApprove ==
  /\ att.pc = "approve"
  /\ \E ok \in BOOLEAN :
       IF ok
       THEN /\ allowance' = MaxUint256
            /\ att' = [att EXCEPT !.pc = "approveWait"]
       ELSE /\ AttReturn("failed")
            /\ UNCHANGED allowance
  /\ obs' = NoObs
  /\ UNCHANGED <<agentVars, lifeVars, retryVars, pmVars, envVars, positions, trackerVars, histVars, chainPos, marketVars,
                 botRest, handlers>>

\* approveTx.wait() resolves
AttApproveWait ==
  /\ att.pc = "approveWait"
  /\ \E ok \in BOOLEAN :
       IF ok THEN att' = [att EXCEPT !.pc = "createLiquidityPosition"]
       ELSE AttReturn("failed")
  /\ obs' = NoObs
  /\ UNCHANGED <<agentVars, lifeVars, retryVars, pmVars, envVars, positions, trackerVars, histVars, chainVars, botRest,
                 handlers>>

\* the createLiquidityPosition transaction is mined, or is rejected
AttCreateLiquidityPosition ==
  /\ att.pc = "createLiquidityPosition"
  /\ \E ok \in BOOLEAN :
       IF ok /\ nextTokenId <= MaxTokens /\ canSpend(allowance, requiredAmount)
       THEN /\ chainPos' = With(chainPos, nextTokenId,
                                [marketId |-> att.marketId, open |-> TRUE, by |-> "attestation"])
            /\ allowance' = spend(allowance, requiredAmount)
            /\ att' = [att EXCEPT !.pc = "wait", !.newId = nextTokenId]
       ELSE /\ AttReturn("failed")
            /\ UNCHANGED <<chainPos, allowance>>
  /\ obs' = NoObs
  /\ UNCHANGED <<agentVars, lifeVars, retryVars, pmVars, envVars, positions, trackerVars, histVars, marketVars, botRest,
                 handlers>>

\* the Transfer logs a receipt of a creation of tokenId can carry
TransferLog(from, to, tokenId) == [from |-> from, to |-> to, tokenId |-> tokenId]
Receipts(tokenId) ==
  { <<TransferLog(ZeroAddress, WalletAddress, tokenId)>>,
    <<TransferLog(OtherAddress, WalletAddress, tokenId),
      TransferLog(ZeroAddress, WalletAddress, tokenId)>>,
    <<>>,
    <<TransferLog(OtherAddress, WalletAddress, tokenId)>>,
    <<TransferLog(ZeroAddress, OtherAddress, tokenId)>> }

\* extractTokenIdFromReceipt: the token id of the first Transfer from the
\* zero address to the wallet; 0 stands for the throw
extractTokenIdFromReceipt_AnyTransfer(logs) ==
  LET mints == {i \in DOMAIN logs : logs[i].to = WalletAddress}
  IN  IF mints = {} THEN 0 ELSE logs[Lowest(mints)].tokenId
extractTokenIdFromReceipt(logs) ==
  LET mints == {i \in DOMAIN logs :
                  logs[i].from = ZeroAddress /\ logs[i].to = WalletAddress}
  IN  IF mints = {} THEN 0 ELSE logs[Lowest(mints)].tokenId

\* tx.wait() resolves with a receipt: the LPPosition object of the extracted
\* token id, positionCreated; or tx.wait() or extractTokenIdFromReceipt
\* throws, with the position minted
\* likelihoodToPrice(likelihood) of the attestation the bot processes; the
\* model has one attested likelihood, 0.5
attestedTargetPrice == 500000

AttWait ==
  /\ att.pc = "wait"
  /\ \/ \E receipt \in Receipts(att.newId) :
          LET tokenId == extractTokenIdFromReceipt(receipt)
          IN  /\ IF tokenId # 0
                 THEN /\ positions' = With(positions, tokenId,
                                           [marketId |-> att.marketId,
                                            targetPrice |-> attestedTargetPrice,
                                            isActive |-> TRUE])
                      /\ activePositions' = handlePositionCreated(activePositions, tokenId)
                      /\ AttReturn("created")
                 ELSE /\ AttReturn("failed")
                      /\ UNCHANGED <<positions, activePositions>>
              /\ obs' = [NoObs EXCEPT !.kind = "receipt", !.receipt = receipt,
                                      !.created = tokenId]
     \/ /\ AttReturn("failed")
        /\ obs' = NoObs
        /\ UNCHANGED <<positions, activePositions>>
  /\ UNCHANGED <<agentVars, lifeVars, retryVars, pmVars, envVars, cooldownEndTimes, tickVars, histVars, chainVars, botRest,
                 handlers>>

HandlerEnds(h) == handlers' = [handlers EXCEPT ![h] = FreeHandler]
HandlerGoes(h, pc) == handlers' = [handlers EXCEPT ![h].pc = pc]
\* the catch of handlePositionAdjustment: emit('error')
HandlerThrows(h) ==
  /\ HandlerEnds(h)
  /\ obs' = [NoObs EXCEPT !.kind = "error", !.error = handlers[h].position]

\* handlePositionAdjustment: getMarketData resolves; adjustLPPosition and
\* closeLPPosition run up to getPosition.  A rejection ends the handler in
\* its catch (emit 'error').
HandlerGetMarketData ==
  /\ \E h \in HandlerSlots, ok \in BOOLEAN :
       /\ handlers[h].pc = "getMarketData"
       /\ IF ok THEN HandlerGoes(h, "getPosition") /\ obs' = NoObs
          ELSE HandlerThrows(h)
  /\ UNCHANGED <<agentVars, lifeVars, retryVars, pmVars, envVars, positions, trackerVars, histVars, chainVars, botVars>>

\* closeLPPosition: getPosition resolves; a position that is not an
\* unsettled LP position is left alone and closeLPPosition returns, so
\* adjustLPPosition goes on to createLPPosition
HandlerGetPosition ==
  /\ \E h \in HandlerSlots, ok \in BOOLEAN :
       /\ handlers[h].pc = "getPosition"
       /\ IF ~ok THEN HandlerThrows(h)
          ELSE IF chainPos[handlers[h].position].open
          THEN HandlerGoes(h, "closeLiquidityPosition") /\ obs' = NoObs
          ELSE HandlerGoes(h, "allowance") /\ obs' = NoObs
  /\ UNCHANGED <<agentVars, lifeVars, retryVars, pmVars, envVars, positions, trackerVars, histVars, chainVars, botVars>>

\* the closeLiquidityPosition transaction is mined, or is rejected (always
\* so for a position that is no longer open)
HandlerCloseLiquidityPosition ==
  /\ \E h \in HandlerSlots, ok \in BOOLEAN :
       /\ handlers[h].pc = "closeLiquidityPosition"
       /\ IF ok /\ chainPos[handlers[h].position].open
          THEN /\ chainPos' = [chainPos EXCEPT ![handlers[h].position].open = FALSE]
               /\ HandlerGoes(h, "closeWait")
               /\ obs' = NoObs
          ELSE /\ HandlerThrows(h)
               /\ UNCHANGED chainPos
  /\ UNCHANGED <<agentVars, lifeVars, retryVars, pmVars, envVars, positions, trackerVars, histVars, marketVars, allowance,
                 botVars>>

\* tx.wait() of the close resolves: isActive = false, positionClosed;
\* createLPPosition starts.  If tx.wait() rejects, the position is closed on
\* chain and the handler ends in its catch.
HandlerCloseWait ==
  /\ \E h \in HandlerSlots, ok \in BOOLEAN :
       /\ handlers[h].pc = "closeWait"
       /\ IF ok
          THEN /\ positions' = [positions EXCEPT ![handlers[h].position].isActive = FALSE]
               /\ LET tr == handlePositionClosed([ap |-> activePositions,
                                                  cd |-> cooldownEndTimes],
                                                 handlers[h].position)
                  IN  /\ activePositions' = tr.ap
                      /\ cooldownEndTimes' = tr.cd
               /\ HandlerGoes(h, "allowance")
               /\ obs' = NoObs
          ELSE /\ HandlerThrows(h)
               /\ UNCHANGED <<positions, activePositions, cooldownEndTimes>>
  /\ UNCHANGED <<agentVars, lifeVars, retryVars, pmVars, envVars, tickVars, histVars, chainVars, botVars>>

\* createLPPosition from its start (getMarketData, symbol, quote) to the
\* allowance read in ensureCollateralApproval
HandlerAllowance ==
  /\ \E h \in HandlerSlots, ok \in BOOLEAN :
       /\ handlers[h].pc = "allowance"
       /\ IF ~ok THEN HandlerThrows(h)
          ELSE IF needsApproval(allowance, requiredAmount)
          THEN HandlerGoes(h, "approve") /\ obs' = NoObs
          ELSE HandlerGoes(h, "createLiquidityPosition") /\ obs' = NoObs
  /\ UNCHANGED <<agentVars, lifeVars, retryVars, pmVars, envVars, positions, trackerVars, histVars, chainVars, botVars>>

\* approve(spender, MaxUint256) is mined, or is rejected
HandlerApprove ==
  /\ \E h \in HandlerSlots, ok \in BOOLEAN :
       /\ handlers[h].pc = "approve"
       /\ IF ok
          THEN /\ allowance' = MaxUint256
               /\ HandlerGoes(h, "approveWait")
               /\ obs' = NoObs
          ELSE /\ HandlerThrows(h)
               /\ UNCHANGED allowance
  /\ UNCHANGED <<agentVars, lifeVars, retryVars, pmVars, envVars, positions, trackerVars, histVars, chainPos, marketVars,
                 botVars>>

\* approveTx.wait() resolves
HandlerApproveWait ==
  /\ \E h \in HandlerSlots, ok \in BOOLEAN :
       /\ handlers[h].pc = "approveWait"
       /\ IF ok THEN HandlerGoes(h, "createLiquidityPosition") /\ obs' = NoObs
          ELSE HandlerThrows(h)
  /\ UNCHANGED <<agentVars, lifeVars, retryVars, pmVars, envVars, positions, trackerVars, histVars, chainVars, botVars>>

\* the createLiquidityPosition transaction is mined, or is rejected
HandlerCreateLiquidityPosition ==
  /\ \E h \in HandlerSlots, ok \in BOOLEAN :
       /\ handlers[h].pc = "createLiquidityPosition"
       /\ IF ok /\ nextTokenId <= MaxTokens /\ canSpend(allowance, requiredAmount)
          THEN /\ chainPos' = With(chainPos, nextTokenId,
                                   [marketId |-> positions[handlers[h].position].marketId,
                                    open |-> TRUE, by |-> "adjustment"])
               /\ allowance' = spend(allowance, requiredAmount)
               /\ handlers' = [handlers EXCEPT ![h].pc = "createWait", ![h].newId = nextTokenId]
               /\ obs' = NoObs
          ELSE /\ HandlerThrows(h)
               /\ UNCHANGED <<chainPos, allowance>>
  /\ UNCHANGED <<agentVars, lifeVars, retryVars, pmVars, envVars, positions, trackerVars, histVars, marketVars, botVars>>

\* tx.wait() of the create resolves with a receipt: the new LPPosition
\* object of the extracted token id, positionCreated; back in
\* handlePositionAdjustment removePosition(old) and addPosition(new).  If
\* tx.wait() or extractTokenIdFromReceipt throws, the handler ends in its
\* catch with the position minted.
HandlerCreateWait ==
  /\ \E h \in HandlerSlots :
       /\ handlers[h].pc = "createWait"
       /\ \/ \E receipt \in Receipts(handlers[h].newId) :
               LET old == handlers[h].position
                   new == extractTokenIdFromReceipt(receipt)
                   created == handlePositionCreated(activePositions, new)
                   tr == removePosition([ap |-> created, cd |-> cooldownEndTimes], old)
               IN  /\ IF new # 0
                      THEN /\ positions' = With(positions, new,
                                                [marketId |-> positions[old].marketId,
                                                 targetPrice |-> handlers[h].currentPrice,
                                                 isActive |-> TRUE])
                           /\ activePositions' = addPosition(tr.ap, new)
                           /\ cooldownEndTimes' = tr.cd
                      ELSE UNCHANGED <<positions, activePositions, cooldownEndTimes>>
                   /\ obs' = [NoObs EXCEPT !.kind = "receipt", !.receipt = receipt,
                                           !.created = new,
                                           !.error = IF new = 0 THEN old ELSE 0]
                   /\ HandlerEnds(h)
          \/ /\ HandlerThrows(h)
             /\ UNCHANGED <<positions, activePositions, cooldownEndTimes>>
  /\ UNCHANGED <<agentVars, lifeVars, retryVars, pmVars, envVars, tickVars, histVars, chainVars, botVars>>

\* the process ends and a new one starts: a new LoomBot, nothing in memory,
\* the chain as it was
Restart ==
  /\ restarts < MaxRestarts
  /\ restarts' = restarts + 1
  /\ positions' = <<>>
  /\ activePositions' = <<>>
  /\ cooldownEndTimes' = <<>>
  /\ trackerIsRunning' = FALSE
  /\ nextTickAt' = 0
  /\ tickPc' = "idle"
  /\ tickCursor' = 0
  /\ tickCount' = 0
  /\ obs' = NoObs
  /\ prevRead' = [id \in PositionIds |-> "none"]
  /\ failedSince' = [id \in PositionIds |-> FALSE]
  /\ lastEmitAt' = [id \in PositionIds |-> 0]
  /\ tickRemoved' = {}
  /\ lpManager' = FALSE
  /\ hasProcessedFirstAttestation' = FALSE
  /\ processedAttestations' = {}
  /\ att' = NoAttestation
  /\ handlers' = [h \in HandlerSlots |-> FreeHandler]
  /\ botIsRunning' = TRUE
  /\ UNCHANGED <<agentVars, lifeVars, retryVars, pmVars, envVars, chainVars, maxPositions, listener>>

\* LoomBot.stop(): the event monitor and the position tracker are stopped
LoomBotStop ==
  /\ botIsRunning
  /\ botIsRunning' = FALSE
  /\ trackerIsRunning' = FALSE
  /\ nextTickAt' = 0
  /\ obs' = [NoObs EXCEPT !.kind = "botStopped"]
  /\ UNCHANGED <<agentVars, lifeVars, retryVars, pmVars, envVars, positions, activePositions,
                 cooldownEndTimes, tickPc, tickCursor, tickCount, histVars, chainVars,
                 maxPositions, lpManager, listener, hasProcessedFirstAttestation,
                 processedAttestations, att, restarts, handlers>>

\* LoomBot.start() on a bot that is not running: the event monitor is
\* started; when that fails the bot is stopped again
LoomBotStart ==
  /\ listener
  /\ ~botIsRunning
  /\ \E ok \in BOOLEAN :
       /\ botIsRunning' = ok
       /\ obs' = [NoObs EXCEPT !.kind = IF ok THEN "botStarted" ELSE "botStopped"]
  /\ UNCHANGED <<agentVars, lifeVars, retryVars, pmVars, envVars, positions, trackerVars, histVars,
                 chainVars, maxPositions, lpManager, listener,
                 hasProcessedFirstAttestation, processedAttestations, att, restarts,
                 handlers>>

\* wallets at the start: empty, or holding a position of another market
InitialWallets ==
  {<<>>, <<[marketId |-> OtherMarket, open |-> TRUE, by |-> "other"]>>}

\* a LoomBot has been constructed and started at time 1
InitBot ==
  /\ PriceIdle
  /\ AgentIdle
  /\ LifeIdle
  /\ RetryIdle
  /\ now = 1
  /\ cooldownPeriod \in 0..MaxCooldown
  /\ marketPrice = [m \in Markets |-> 500000]
  /\ positions = <<>>
  /\ activePositions = <<>>
  /\ cooldownEndTimes = <<>>
  /\ trackerIsRunning = FALSE
  /\ nextTickAt = 0
  /\ tickPc = "idle"
  /\ tickCursor = 0
  /\ tickCount = 0
  /\ obs = NoObs
  /\ prevRead = [id \in PositionIds |-> "none"]
  /\ failedSince = [id \in PositionIds |-> FALSE]
  /\ lastEmitAt = [id \in PositionIds |-> 0]
  /\ tickRemoved = {}
  /\ chainPos \in InitialWallets
  /\ marketSettled \in [Markets -> BOOLEAN]
  /\ endTime \in [Markets -> {2, MaxTime + 1}]
  /\ allowance \in AllowanceLevels
  /\ maxPositions \in {0, 1, 2}
  /\ lpManager = FALSE
  /\ listener = TRUE
  /\ botIsRunning = TRUE
  /\ hasProcessedFirstAttestation = FALSE
  /\ processedAttestations = {}
  /\ att = NoAttestation
  /\ handlers = [h \in HandlerSlots |-> FreeHandler]
  /\ restarts = 0

(***************************************************************************)
(* MarketLPAgent.runOnce and the loop of main (services/MarketLPAgent.ts,  *)
(* index.ts).  runOnce is split where it awaits; createLPPosition is the   *)
(* step that has the transaction mined and the step in which tx.wait()     *)
(* resolves.  DRY_RUN is read from the environment when runOnce needs it.  *)
(***************************************************************************)
RECURSIVE SortedSeq(_)
SortedSeq(S) ==
  IF S = {} THEN <<>> ELSE <<Lowest(S)>> \o SortedSeq(S \ {Lowest(S)})

\* the markets MARKETS_QUERY returns: those that exist, are not settled and,
\* with a cutoff, were created after it
marketsQuery(cutoff) ==
  SortedSeq({m \in AgentMarkets :
               /\ api[m].createdAt <= now
               /\ ~api[m].settled
               /\ (cutoff # 0 => api[m].createdAt > cutoff)})

\* nowSec > endSec, for a market that has an endTimestamp
isExpired(m) == api[m].endTimestamp # 0 /\ now > api[m].endTimestamp

\* balance < required
hasInsufficientCollateral_Never(bal, required) == FALSE
hasInsufficientCollateral(bal, required) == bal < required

\* the for loop from entry j of markets up to its next await: a market
\* without address or past its end is skipped
RECURSIVE nextMarket(_, _)
nextMarket(markets, j) ==
  IF j > Len(markets) THEN j
  ELSE IF ~api[markets[j]].address \/ isExpired(markets[j])
  THEN nextMarket(markets, j + 1)
  ELSE j

Sleeping ==
  [agent EXCEPT !.pc = "sleep", !.markets = <<>>, !.i = 0, !.wakeAt = now + 1,
                !.likelihood = NaN]
Remaining(markets, j) == {markets[k] : k \in {k \in DOMAIN markets : k > j}}

\* runOnce returns: the cutoff is recorded, and the loop sleeps
RunReturns(o) ==
  /\ lastRunCutoff' = now
  /\ agent' = Sleeping
  /\ agObs' = [o EXCEPT !.returned = TRUE]

\* runOnce throws: the loop logs the error and sleeps
RunThrows(o) ==
  /\ agent' = Sleeping
  /\ agObs' = [o EXCEPT !.threw = TRUE, !.remaining = Remaining(agent.markets, agent.i)]
  /\ UNCHANGED lastRunCutoff

\* the for loop goes on with entry j
LoopGoesOn(markets, j, createdCount, o) ==
  LET k == nextMarket(markets, j)
  IN  IF k > Len(markets)
      THEN RunReturns(o)
      ELSE /\ agent' = [agent EXCEPT !.pc = "getCurrentLPPosition", !.markets = markets,
                                     !.i = k, !.createdCount = createdCount,
                                     !.likelihood = NaN]
           /\ agObs' = o
           /\ UNCHANGED lastRunCutoff

\* while (!stopping): runOnce is called and runs up to gql.query
RunOnce ==
  /\ ~exited
  /\ ~stopping
  /\ \/ agent.pc = "start"
     \/ agent.pc = "sleep" /\ now >= agent.wakeAt
  /\ agent' = [agent EXCEPT !.pc = "query", !.createdCount = 0]
  /\ agObs' = [NoAgObs EXCEPT !.kind = "runOnce"]
  /\ UNCHANGED <<lastRunCutoff, stopping, exited, balance, api, haltedMarkets>>
  /\ UNCHANGED <<lifeVars, retryVars, pmVars, envVars, positions, trackerVars, obsVars, chainVars,
                 botVars, handlers>>

\* gql.query resolves
QueryResolves ==
  /\ ~exited
  /\ agent.pc = "query"
  /\ \E ok \in BOOLEAN :
       LET o == [NoAgObs EXCEPT !.kind = "query"] IN
       IF ok
       THEN LET markets == marketsQuery(lastRunCutoff)
            IN  LoopGoesOn(markets, 1, 0,
                           [o EXCEPT !.considered = {markets[k] : k \in DOMAIN markets}])
       ELSE RunThrows(o)
  /\ UNCHANGED <<stopping, exited, balance, api, haltedMarkets>>
  /\ UNCHANGED <<lifeVars, retryVars, pmVars, envVars, positions, trackerVars, obsVars, chainVars,
                 botVars, handlers>>

\* getCurrentLPPosition resolves; a market with a position or without
\* collateralAsset is skipped
AgentGetCurrentLPPosition ==
  /\ ~exited
  /\ agent.pc = "getCurrentLPPosition"
  /\ \E ok \in BOOLEAN :
       LET m == agent.markets[agent.i]
           o == [NoAgObs EXCEPT !.kind = "getCurrentLPPosition", !.market = m]
       IN  IF ~ok THEN RunThrows(o)
           ELSE IF getCurrentLPPosition(chainPos, m) # 0 \/ ~api[m].collateralAsset
           THEN LoopGoesOn(agent.markets, agent.i + 1, agent.createdCount, o)
           ELSE /\ agent' = [agent EXCEPT !.pc = "getCollateralBalance"]
                /\ agObs' = o
                /\ UNCHANGED lastRunCutoff
  /\ UNCHANGED <<stopping, exited, balance, api, haltedMarkets>>
  /\ UNCHANGED <<lifeVars, retryVars, pmVars, envVars, positions, trackerVars, obsVars, chainVars,
                 botVars, handlers>>

\* getCollateralBalance resolves: with too little collateral the loop is
\* left (break); a rejection is caught and the creation is attempted
AgentGetCollateralBalance ==
  /\ ~exited
  /\ agent.pc = "getCollateralBalance"
  /\ \E ok \in BOOLEAN :
       LET m == agent.markets[agent.i]
           o == [NoAgObs EXCEPT !.kind = "getCollateralBalance", !.market = m,
                                !.balanceRead = IF ok THEN "ok" ELSE "failed",
                                !.remaining = Remaining(agent.markets, agent.i)]
       IN  IF ok /\ hasInsufficientCollateral(balance, requiredAmount)
           THEN /\ RunReturns(o)
                /\ haltedMarkets' = haltedMarkets \cup {m}
           ELSE /\ agent' = [agent EXCEPT !.pc = "predictMarket"]
                /\ agObs' = o
                /\ UNCHANGED <<lastRunCutoff, haltedMarkets>>
  /\ UNCHANGED <<stopping, exited, balance, api>>
  /\ UNCHANGED <<lifeVars, retryVars, pmVars, envVars, positions, trackerVars, obsVars, chainVars,
                 botVars, handlers>>

\* openai.predictMarket resolves
(***************************************************************************)
(* OpenAIService.predictMarket (shared/src/openai.ts).  A completion is    *)
(* its content as JSON.parse sees it: text that does not parse, the JSON   *)
(* value null, or an object with some value under probabilityYes.          *)
(***************************************************************************)
Infinity == [nan |-> FALSE, v |-> 0, inf |-> TRUE]
isFinite(x) == ~x.nan /\ "inf" \notin DOMAIN x

\* Number(value) for a value that JSON.parse can produce
Number(value) ==
  CASE value.type = "undefined" -> NaN
    [] value.type = "null" -> Num(0)
    [] value.type = "boolean" -> Num(value.v)
    [] value.type = "object" -> NaN
    [] value.type = "number" -> Num(value.v)
    [] value.type = "numericString" -> Num(value.v)
    [] value.type = "infinityString" -> Infinity
    [] value.type = "otherString" -> NaN

JsonValues ==
  {[type |-> t, v |-> 0] : t \in {"undefined", "null", "object", "infinityString",
                                  "otherString"}}
  \cup {[type |-> "boolean", v |-> PriceScale]}
  \cup {[type |-> "number", v |-> x] : x \in {-500000, 0, 300000, 1000000, 1500000}}
  \cup {[type |-> "numericString", v |-> 700000]}

Contents ==
  {[parse |-> "throws", probabilityYes |-> [type |-> "undefined", v |-> 0]],
   [parse |-> "null", probabilityYes |-> [type |-> "undefined", v |-> 0]]}
  \cup {[parse |-> "object", probabilityYes |-> j] : j \in JsonValues}

predictMarket_NoClamp(content) ==
  IF content.parse \in {"throws", "null"}
  THEN Num(500000)
  ELSE LET p == Number(content.probabilityYes)
       IN  IF ~isFinite(p) THEN Num(500000) ELSE p

\* probabilityYes of the prediction; a property read on null throws inside
\* the try block like a parse error does
predictMarket(content) ==
  IF content.parse \in {"throws", "null"}
  THEN Num(500000)
  ELSE LET p == Number(content.probabilityYes)
           q == IF ~isFinite(p) THEN Num(500000) ELSE p
       IN  MathMax(Num(0), MathMin(Num(PriceScale), q))

AgentPredictMarket ==
  /\ ~exited
  /\ agent.pc = "predictMarket"
  /\ \/ \E content \in Contents :
          /\ agent' = [agent EXCEPT !.pc = "getMarketData",
                                    !.likelihood = predictMarket(content)]
          /\ agObs' = [NoAgObs EXCEPT !.kind = "predictMarket",
                                      !.market = agent.markets[agent.i],
                                      !.content = content]
          /\ UNCHANGED lastRunCutoff
     \/ RunThrows([NoAgObs EXCEPT !.kind = "predictMarket",
                                  !.market = agent.markets[agent.i]])
  /\ UNCHANGED <<stopping, exited, balance, api, haltedMarkets>>
  /\ UNCHANGED <<lifeVars, retryVars, pmVars, envVars, positions, trackerVars, obsVars, chainVars,
                 botVars, handlers>>

\* getMarketData resolves; likelihoodToPrice and priceToTicks; with DRY_RUN
\* the market is skipped
AgentGetMarketData ==
  /\ ~exited
  /\ agent.pc = "getMarketData"
  /\ \E ok \in BOOLEAN :
       LET o == [NoAgObs EXCEPT !.kind = "getMarketData", !.market = agent.markets[agent.i]]
       IN  IF ~ok THEN RunThrows(o)
           ELSE IF likelihoodToPrice(agent.likelihood, 10000, 990000).threw
           THEN RunThrows([o EXCEPT !.kind = "invalidLikelihood"])
           ELSE IF agent.dryRun
           THEN LoopGoesOn(agent.markets, agent.i + 1, agent.createdCount, o)
           ELSE /\ agent' = [agent EXCEPT !.pc = "createLPPosition", !.likelihood = NaN]
                /\ agObs' = o
                /\ UNCHANGED lastRunCutoff
  /\ UNCHANGED <<stopping, exited, balance, api, haltedMarkets>>
  /\ UNCHANGED <<lifeVars, retryVars, pmVars, envVars, positions, trackerVars, obsVars, chainVars,
                 botVars, handlers>>

\* createLPPosition up to the mined createLiquidityPosition transaction,
\* which takes the collateral from the wallet
AgentCreateLPPosition ==
  /\ ~exited
  /\ agent.pc = "createLPPosition"
  /\ \E ok \in BOOLEAN :
       LET m == agent.markets[agent.i]
           o == [NoAgObs EXCEPT !.kind = "createLPPosition", !.market = m]
           approved == IF needsApproval(allowance, requiredAmount) THEN MaxUint256
                       ELSE allowance
       IN  IF ok /\ nextTokenId <= MaxTokens /\ balance >= requiredAmount
           THEN /\ chainPos' = With(chainPos, nextTokenId,
                                    [marketId |-> m, open |-> TRUE, by |-> "agent"])
                /\ allowance' = spend(approved, requiredAmount)
                /\ balance' = balance - requiredAmount
                /\ agent' = [agent EXCEPT !.pc = "wait"]
                /\ agObs' = o
                /\ UNCHANGED lastRunCutoff
           ELSE /\ RunThrows(o)
                /\ UNCHANGED <<chainPos, allowance, balance>>
  /\ UNCHANGED <<stopping, exited, api, haltedMarkets>>
  /\ UNCHANGED <<lifeVars, retryVars, pmVars, envVars, positions, trackerVars, obsVars, marketVars,
                 botVars, handlers>>

\* tx.wait() resolves and the token id is extracted, or one of them throws
AgentWait ==
  /\ ~exited
  /\ agent.pc = "wait"
  /\ \E ok \in BOOLEAN :
       LET o == [NoAgObs EXCEPT !.kind = "wait", !.market = agent.markets[agent.i]]
       IN  IF ok
           THEN LoopGoesOn(agent.markets, agent.i + 1, agent.createdCount + 1, o)
           ELSE RunThrows(o)
  /\ UNCHANGED <<stopping, exited, balance, api, haltedMarkets>>
  /\ UNCHANGED <<lifeVars, retryVars, pmVars, envVars, positions, trackerVars, obsVars, chainVars,
                 botVars, handlers>>

\* SIGINT or SIGTERM: stopping = true; process.exit(0)
Signal ==
  /\ ~exited
  /\ stopping' = TRUE
  /\ exited' = TRUE
  /\ agObs' = [NoAgObs EXCEPT !.kind = "signal"]
  /\ UNCHANGED <<agent, lastRunCutoff, balance, api, haltedMarkets>>
  /\ UNCHANGED <<lifeVars, retryVars, pmVars, envVars, positions, trackerVars, obsVars, chainVars,
                 botVars, handlers>>

\* collateral arrives in the wallet
Fund ==
  /\ balance < MaxBalance
  /\ balance' = balance + 1
  /\ agObs' = NoAgObs
  /\ UNCHANGED <<agent, lastRunCutoff, stopping, exited, api, haltedMarkets>>
  /\ UNCHANGED <<lifeVars, retryVars, pmVars, envVars, positions, trackerVars, obsVars, chainVars,
                 botVars, handlers>>

\* the markets the API can hold: one that can get a position, one without
\* address, one without collateralAsset, one that ends at time 2, one that
\* is created at time 3, one that is settled
Market(address, collateralAsset, endTimestamp, createdAt, settled) ==
  [address |-> address, collateralAsset |-> collateralAsset, endTimestamp |-> endTimestamp,
   createdAt |-> createdAt, settled |-> settled]
MarketKinds ==
  { Market(TRUE, TRUE, 0, 0, FALSE), Market(FALSE, TRUE, 0, 0, FALSE),
    Market(TRUE, FALSE, 0, 0, FALSE), Market(TRUE, TRUE, 2, 0, FALSE),
    Market(TRUE, TRUE, 0, 3, FALSE), Market(TRUE, TRUE, 0, 0, TRUE) }

\* main has constructed the agent and calls loop() at time 1
InitAgent ==
  /\ PriceIdle
  /\ TrackerIdle
  /\ LifeIdle
  /\ RetryIdle
  /\ \E d \in BOOLEAN : agent = [NoAgent EXCEPT !.pc = "start", !.dryRun = d]
  /\ lastRunCutoff = 0
  /\ stopping = FALSE
  /\ exited = FALSE
  /\ balance \in 0..MaxBalance
  /\ api \in [AgentMarkets -> MarketKinds]
  /\ agObs = NoAgObs
  /\ haltedMarkets = {}

(***************************************************************************)
(* The timers of PositionTracker (start, stop, scheduleNextCheck), with    *)
(* the tracker driven through its public methods.  What checkAllPositions  *)
(* does to the positions is left out here: a timer callback either awaits  *)
(* a read in checkAllPositions or finds nothing to await.                  *)
(***************************************************************************)
lifeFrame ==
  <<agentVars, pmVars, envVars, positions, activePositions, cooldownEndTimes, nextTickAt,
    tickPc, tickCursor, tickCount, obsVars, chainVars, botVars, handlers, retryVars>>

\* scheduleNextCheck with the timers in `pending`: while running, a new
\* timer is set and its handle is kept in monitoringTimer
setMonitoringTimer(isRunning, pending) ==
  IF isRunning
  THEN /\ timersSet < MaxTimers
       /\ timersSet' = timersSet + 1
       /\ monitoringTimer' = timersSet + 1
       /\ pendingTimers' = pending \cup {timersSet + 1}
  ELSE /\ pendingTimers' = pending
       /\ UNCHANGED <<timersSet, monitoringTimer>>

\* start() of a tracker that is not running and has its LPManager
start ==
  /\ ~trackerIsRunning
  /\ lpManager
  /\ trackerIsRunning' = TRUE
  /\ setMonitoringTimer(TRUE, pendingTimers)
  /\ UNCHANGED <<runsInProgress, lifeFrame>>

\* stop() of a running tracker: clearTimeout(monitoringTimer)
stop ==
  /\ trackerIsRunning
  /\ trackerIsRunning' = FALSE
  /\ IF monitoringTimer # 0
     THEN /\ pendingTimers' = pendingTimers \ {monitoringTimer}
          /\ monitoringTimer' = 0
     ELSE UNCHANGED <<pendingTimers, monitoringTimer>>
  /\ UNCHANGED <<timersSet, runsInProgress, lifeFrame>>

\* a timer fires: its callback runs checkAllPositions up to the first read
\* it awaits (awaits), or through to the finally when there is none
TimerCallback ==
  /\ \E t \in pendingTimers, awaits \in BOOLEAN :
       IF awaits
       THEN /\ runsInProgress' = runsInProgress + 1
            /\ pendingTimers' = pendingTimers \ {t}
            /\ UNCHANGED <<timersSet, monitoringTimer>>
       ELSE /\ setMonitoringTimer(trackerIsRunning, pendingTimers \ {t})
            /\ UNCHANGED runsInProgress
  /\ UNCHANGED <<trackerIsRunning, lifeFrame>>

\* checkAllPositions of a callback resolves: finally scheduleNextCheck()
CallbackCompletes ==
  /\ runsInProgress > 0
  /\ runsInProgress' = runsInProgress - 1
  /\ setMonitoringTimer(trackerIsRunning, pendingTimers)
  /\ UNCHANGED <<trackerIsRunning, lifeFrame>>

\* a tracker has been constructed with its LPManager
InitLifecycle ==
  /\ PriceIdle
  /\ TrackerIdle
  /\ AgentIdle
  /\ LifeIdle
  /\ RetryIdle

InitPrice ==
  /\ pmOp \in {"likelihoodToPrice", "priceToTicks", "attestationRange", "roundTrip",
               "createLPPosition"}
  /\ \/ /\ pmOp = "likelihoodToPrice"
        /\ \E l \in Likelihoods, b \in PriceBounds :
             pmArgs = DefaultP2TArgs @@ [likelihood |-> l, minPrice |-> b[1], maxPrice |-> b[2]]
     \/ /\ pmOp \in {"priceToTicks", "attestationRange"}
        /\ \E t \in TargetPrices, c \in CurrentTicks, r \in ConcentrationRanges,
              b \in MarketBounds :
             pmArgs = DefaultL2PArgs @@
                      [targetPrice |-> t, currentTick |-> c, concentrationRange |-> r,
                       hasBounds |-> b[1], minTick |-> b[2], maxTick |-> b[3]]
     \/ /\ pmOp = "createLPPosition"
        /\ \E r \in CallerRanges, b \in MarketTickBounds :
             pmArgs = [DefaultL2PArgs @@ DefaultP2TArgs EXCEPT
                         !.lowerTick = r[1], !.upperTick = r[2], !.hasBounds = TRUE,
                         !.minTick = b[1], !.maxTick = b[2]]
     \/ /\ pmOp = "roundTrip"
        /\ \E t \in RoundTripTicks :
             pmArgs = [DefaultL2PArgs @@ DefaultP2TArgs EXCEPT !.tick = t]
  /\ pmRet = NoRet
  /\ TrackerIdle
  /\ AgentIdle
  /\ LifeIdle
  /\ RetryIdle

CallLikelihoodToPrice ==
  /\ pmOp = "likelihoodToPrice"
  /\ ~pmRet.done
  /\ LET r == likelihoodToPrice(pmArgs.likelihood, pmArgs.minPrice, pmArgs.maxPrice)
     IN  pmRet' = [NoRet EXCEPT !.done = TRUE, !.threw = r.threw, !.value = r.value]
  /\ UNCHANGED <<agentVars, lifeVars, retryVars, pmOp, pmArgs, envVars, positions, trackerVars, obsVars, chainVars, botVars, handlers>>

CallPriceToTicks ==
  /\ pmOp = "priceToTicks"
  /\ ~pmRet.done
  /\ pmRet' = [NoRet EXCEPT
                 !.done = TRUE,
                 !.range = priceToTicks(pmArgs.targetPrice, pmArgs.currentTick,
                                        pmArgs.concentrationRange, pmArgs.hasBounds,
                                        pmArgs.minTick, pmArgs.maxTick),
                 !.bounds = priceModelBounds(pmArgs.targetPrice,
                                             pmArgs.concentrationRange)]
  /\ UNCHANGED <<agentVars, lifeVars, retryVars, pmOp, pmArgs, envVars, positions, trackerVars, obsVars, chainVars, botVars, handlers>>

\* the attestation path: LoomBot reports calculatePriceRange(targetPrice) and
\* then has AttestationParser.priceToTicks derive the ticks from its own
\* bounds; the step records both pairs of prices
CallAttestationRange ==
  /\ pmOp = "attestationRange"
  /\ ~pmRet.done
  /\ pmRet' = [NoRet EXCEPT
                 !.done = TRUE,
                 !.priceRange = calculatePriceRange(pmArgs.targetPrice,
                                                    pmArgs.concentrationRange),
                 !.bounds = attestationParserBounds(pmArgs.targetPrice,
                                                    pmArgs.concentrationRange)]
  /\ UNCHANGED <<agentVars, lifeVars, retryVars, pmOp, pmArgs, envVars, positions, trackerVars, obsVars, chainVars, botVars, handlers>>

vars == <<pmVars, envVars, positions, trackerVars, obsVars, chainVars, botVars, handlers,
          agentVars, lifeVars, retryVars>>

\* a tick is converted to its sqrtPriceX96 and that back to a price
CallRoundTrip ==
  /\ pmOp = "roundTrip"
  /\ ~pmRet.done
  /\ pmRet' = [NoRet EXCEPT
                 !.done = TRUE,
                 !.sqrtPriceX96 = tickToSqrtPriceX96(pmArgs.tick),
                 !.price = sqrtPriceToPrice(tickToSqrtPriceX96(pmArgs.tick))]
  /\ UNCHANGED <<agentVars, lifeVars, retryVars, pmOp, pmArgs, envVars, positions, trackerVars, obsVars, chainVars, botVars, handlers>>

\* the ticks of createLPPosition: clamped, submitted, recorded in the entity
CallCreateLPPosition ==
  /\ pmOp = "createLPPosition"
  /\ ~pmRet.done
  /\ LET clamped == clampTicks(pmArgs.lowerTick, pmArgs.upperTick,
                               pmArgs.minTick, pmArgs.maxTick)
     IN  pmRet' = [NoRet EXCEPT !.done = TRUE, !.liquidityParams = clamped,
                                !.position = clamped]
  /\ UNCHANGED <<agentVars, lifeVars, retryVars, pmOp, pmArgs, envVars, positions, trackerVars, obsVars, chainVars, botVars, handlers>>

(***************************************************************************)
(* retry(fn, maxAttempts, delay) of the shared utilities: one call, from   *)
(* the executor of its promise to the last statement the executor runs.    *)
(* fn is any function: each of its calls resolves with some value or       *)
(* rejects with some error.                                                *)
(***************************************************************************)
MaxAttempts == 3
MaxAttemptsArgs == -1..MaxAttempts
DelayArgs == {0, 1, 2}
FnResults == {"r1", "r2"}
FnErrors == {"e1", "e2"}

\* the head of the for loop with attempt = a: the body calls fn and awaits
\* it; when the condition fails the executor returns
retryLoop(r, a) ==
  IF a <= r.maxAttempts
  THEN [r EXCEPT !.attempt = a, !.pc = "awaitFn", !.calls = @ + 1, !.sleepFor = 0]
  ELSE [r EXCEPT !.attempt = a, !.pc = "returned", !.sleepFor = 0]

\* resolve / reject of the promise: a settled promise stays as it is
settle(promise, state, value) ==
  IF promise.state = "pending" THEN [state |-> state, value |-> value] ELSE promise

\* retry(fn, maxAttempts, delay) is called: the executor runs to the first await
RetryStart ==
  /\ retryCall.pc = "idle"
  /\ \E maxAttempts \in MaxAttemptsArgs, delay \in DelayArgs :
       retryCall' = retryLoop([retryCall EXCEPT !.maxAttempts = maxAttempts, !.delay = delay], 1)
  /\ UNCHANGED <<agentVars, lifeVars, pmVars, envVars, positions, trackerVars, obsVars, chainVars, botVars, handlers>>

\* fn() resolves: resolve(result); return
FnResolves ==
  /\ retryCall.pc = "awaitFn"
  /\ \E result \in FnResults :
       retryCall' = [retryCall EXCEPT
                       !.outcomes = Append(@, [ok |-> TRUE, value |-> result]),
                       !.promise = settle(@, "resolved", result),
                       !.pc = "returned"]
  /\ UNCHANGED <<agentVars, lifeVars, pmVars, envVars, positions, trackerVars, obsVars, chainVars, botVars, handlers>>

\* fn() throws or rejects: reject(error) on the last attempt, else sleep
FnRejects ==
  /\ retryCall.pc = "awaitFn"
  /\ \E error \in FnErrors :
       retryCall' =
         IF retryCall.attempt = retryCall.maxAttempts
         THEN [retryCall EXCEPT
                 !.outcomes = Append(@, [ok |-> FALSE, value |-> error]),
                 !.promise = settle(@, "rejected", error),
                 !.pc = "returned"]
         ELSE [retryCall EXCEPT
                 !.outcomes = Append(@, [ok |-> FALSE, value |-> error]),
                 !.sleepFor = retryCall.delay * retryCall.attempt,
                 !.pc = "sleeping"]
  /\ UNCHANGED <<agentVars, lifeVars, pmVars, envVars, positions, trackerVars, obsVars, chainVars, botVars, handlers>>

\* the timer of sleep(delay * attempt) fires: attempt++ and the loop head
SleepEnds ==
  /\ retryCall.pc = "sleeping"
  /\ retryCall' = retryLoop(retryCall, retryCall.attempt + 1)
  /\ UNCHANGED <<agentVars, lifeVars, pmVars, envVars, positions, trackerVars, obsVars, chainVars, botVars, handlers>>

InitRetry ==
  /\ PriceIdle
  /\ TrackerIdle
  /\ AgentIdle
  /\ LifeIdle
  /\ RetryIdle

NextPrice ==
  \/ CallLikelihoodToPrice
  \/ CallPriceToTicks
  \/ CallAttestationRange
  \/ CallRoundTrip
  \/ CallCreateLPPosition

SpecPrice == InitPrice /\ [][NextPrice]_vars

NextTracker ==
  \/ TimerFires
  \/ ReadResolves
  \/ Advance
  \/ SetPrice
  \/ AddPosition
  \/ RemovePosition
  \/ Deactivate

SpecTracker == InitTracker /\ [][NextTracker]_vars

NextBot ==
  \/ AttestationEvent
  \/ AttGetMarketData
  \/ AttGetCurrentLPPosition
  \/ AttAllowance
  \/ AttApprove
  \/ AttApproveWait
  \/ AttCreateLiquidityPosition
  \/ AttWait
  \/ TimerFires
  \/ ReadResolves
  \/ HandlerGetMarketData
  \/ HandlerGetPosition
  \/ HandlerCloseLiquidityPosition
  \/ HandlerCloseWait
  \/ HandlerAllowance
  \/ HandlerApprove
  \/ HandlerApproveWait
  \/ HandlerCreateLiquidityPosition
  \/ HandlerCreateWait
  \/ Advance
  \/ SetPrice
  \/ Restart

SpecBot == InitBot /\ [][NextBot]_vars

\* the bot under start(), stop() and a stream of attestation events
NextLoomBot ==
  \/ LaterAttestationEvent
  \/ AttGetMarketData
  \/ AttGetCurrentLPPosition
  \/ AttAllowance
  \/ AttApprove
  \/ AttApproveWait
  \/ AttCreateLiquidityPosition
  \/ AttWait
  \/ TimerFires
  \/ ReadResolves
  \/ LoomBotStop
  \/ LoomBotStart
  \/ Advance
  \/ Restart

SpecLoomBot == InitBot /\ [][NextLoomBot]_vars

NextAgent ==
  \/ RunOnce
  \/ QueryResolves
  \/ AgentGetCurrentLPPosition
  \/ AgentGetCollateralBalance
  \/ AgentPredictMarket
  \/ AgentGetMarketData
  \/ AgentCreateLPPosition
  \/ AgentWait
  \/ Signal
  \/ Fund
  \/ Advance

SpecAgent == InitAgent /\ [][NextAgent]_vars

NextLifecycle == start \/ stop \/ TimerCallback \/ CallbackCompletes

SpecLifecycle == InitLifecycle /\ [][NextLifecycle]_vars

NextRetry == RetryStart \/ FnResolves \/ FnRejects \/ SleepEnds

\* the event loop runs every callback that is due, and every call of fn settles
SpecRetry == InitRetry /\ [][NextRetry]_vars /\ WF_vars(NextRetry)

(***************************************************************************)
(* Claims about PriceModel, checked under SpecPrice.                       *)
(***************************************************************************)
L2PCalled == pmOp = "likelihoodToPrice" /\ pmRet.done
P2TCalled == pmOp = "priceToTicks" /\ pmRet.done

\* C7: for every likelihood p in [0,1] and every minPrice <= maxPrice,
\* likelihoodToPrice(p, minPrice, maxPrice) returns a value in
\* [minPrice, maxPrice], and returns p itself when minPrice <= p <= maxPrice.
C7_LikelihoodClampedIntoBounds ==
  (/\ L2PCalled
   /\ ~pmArgs.likelihood.nan
   /\ pmArgs.likelihood.v >= 0 /\ pmArgs.likelihood.v <= PriceScale
   /\ pmArgs.minPrice <= pmArgs.maxPrice)
  => /\ ~pmRet.threw
     /\ ~pmRet.value.nan
     /\ pmArgs.minPrice <= pmRet.value.v /\ pmRet.value.v <= pmArgs.maxPrice
     /\ (pmArgs.minPrice <= pmArgs.likelihood.v /\ pmArgs.likelihood.v <= pmArgs.maxPrice
           => pmRet.value = pmArgs.likelihood)

\* C7 witness: likelihood 0.995 with the default bounds is clamped to 0.99
C7_Witness ==
  /\ L2PCalled
  /\ pmArgs.likelihood = Num(995000)
  /\ pmArgs.minPrice = 10000 /\ pmArgs.maxPrice = 990000
  /\ pmRet.value = Num(990000)

\* C8: likelihoodToPrice throws, returning no price, exactly when the
\* likelihood is NaN, below 0 or above 1; 0 and 1 themselves are accepted.
C8_ThrowsExactlyOnInvalidLikelihood ==
  L2PCalled =>
    /\ pmRet.threw <=> (\/ pmArgs.likelihood.nan
                        \/ pmArgs.likelihood.v < 0
                        \/ pmArgs.likelihood.v > PriceScale)
    /\ pmRet.threw => pmRet.value = NaN
    /\ pmArgs.likelihood \in {Num(0), Num(PriceScale)} => ~pmRet.threw

\* C8 witness: the smallest modelled likelihood above 1 is rejected
C8_Witness ==
  /\ L2PCalled
  /\ pmArgs.likelihood = Num(PriceScale + 1)
  /\ pmRet.threw

IsUsableTick(tick) == tick % tickSpacing = 0

\* C9 as stated: for every valid (targetPrice, concentrationRange), with or
\* without market tick bounds, priceToTicks returns lowerTick < upperTick,
\* both multiples of 200.
C9_Original ==
  (P2TCalled /\ pmArgs.concentrationRange > 0)
  => /\ pmRet.range.lowerTick < pmRet.range.upperTick
     /\ IsUsableTick(pmRet.range.lowerTick)
     /\ IsUsableTick(pmRet.range.upperTick)

\* C9 amended: the same conclusion when no market bounds are supplied, or when
\* the supplied bounds are themselves multiples of 200 with min < max.
C9_AlignedRangeUnderAlignedBounds ==
  (/\ P2TCalled
   /\ \/ ~pmArgs.hasBounds
      \/ /\ pmArgs.minTick < pmArgs.maxTick
         /\ IsUsableTick(pmArgs.minTick)
         /\ IsUsableTick(pmArgs.maxTick))
  => /\ pmRet.range.lowerTick < pmRet.range.upperTick
     /\ IsUsableTick(pmRet.range.lowerTick)
     /\ IsUsableTick(pmRet.range.upperTick)

\* C9 witness: a computed range whose lower tick was clamped to an aligned
\* market bound
C9_Witness ==
  /\ P2TCalled
  /\ pmArgs.hasBounds /\ pmArgs.minTick = -7000 /\ pmArgs.maxTick = -3000
  /\ pmRet.range.path = "computed"
  /\ pmRet.range.snappedLower < -7000
  /\ pmRet.range.lowerTick = -7000

\* C10 as stated: the snapped range is never narrower than the raw range:
\* snapped lowerTick <= raw lower tick and snapped upperTick >= raw upper
\* tick.  (An integer is <= a real exactly when it is <= its floor, and >= a
\* real exactly when it is >= its ceiling.)
C10_Original ==
  P2TCalled =>
    /\ pmRet.range.snappedLower <= pmRet.range.rawLowerFloor
    /\ pmRet.range.snappedUpper >= pmRet.range.rawUpperCeil

\* C10 amended: snapping to the nearest usable tick can narrow the range, by
\* at most half the tick spacing on each side: snapped lowerTick <= raw lower
\* tick + 100 and snapped upperTick >= raw upper tick - 100.
C10_SnappedWithinHalfSpacing ==
  P2TCalled =>
    /\ pmRet.range.snappedLower <= pmRet.range.rawLowerFloor + tickSpacing \div 2
    /\ pmRet.range.snappedUpper >= pmRet.range.rawUpperCeil - tickSpacing \div 2

\* C10 witness: likelihood 0.73 with range 0.05: the floored lower tick -3496
\* snaps up to -3400, inside the raw range
C10_Witness ==
  /\ P2TCalled
  /\ pmArgs.targetPrice = 730000 /\ pmArgs.concentrationRange = 50000
  /\ pmRet.range.rawLowerFloor = -3496
  /\ pmRet.range.snappedLower = -3400

(***************************************************************************)
(* Claims about PositionTracker, checked under SpecTracker.                *)
(***************************************************************************)
counterOf(id) ==
  IF id \in DOMAIN activePositions THEN activePositions[id].consecutiveDeviations ELSE 0

wasInCooldown(id, t) == lastEmitAt[id] # 0 /\ t < lastEmitAt[id] + cooldownPeriod

\* C3: a successful price read of a position emits positionNeedsAdjustment
\* exactly when it is deviating and the previous successful read of that
\* position was deviating without having emitted, i.e. when the count of
\* consecutive deviating reads reaches 2; the emission leaves the counter
\* at 0 and the cooldown end at now + cooldownPeriod; a first deviating
\* read leaves the counter at 1; an in-range read leaves it at 0 and emits
\* nothing; nothing but a price read emits.
C3_EmitsExactlyOnSecondDeviation ==
  /\ obs.emit # 0 => obs.emit = obs.readId /\ obs.outcome = "dev"
  /\ obs.readId # 0 /\ obs.outcome # "fail" =>
       /\ obs.emit = obs.readId <=> (obs.outcome = "dev" /\ obs.prev = "dev")
       /\ obs.emit = obs.readId =>
            /\ counterOf(obs.readId) = 0
            /\ obs.readId \in DOMAIN cooldownEndTimes
            /\ cooldownEndTimes[obs.readId] = obs.at + cooldownPeriod
       /\ obs.outcome = "dev" /\ obs.prev # "dev" /\ obs.readId \in DOMAIN activePositions =>
            counterOf(obs.readId) = 1
       /\ obs.outcome = "in" => counterOf(obs.readId) = 0 /\ obs.emit = 0

\* two deviating reads in sequence have produced the emission
C3_Witness ==
  /\ obs.emit # 0
  /\ obs.prev = "dev"
  /\ obs.emit \in DOMAIN activePositions
  /\ positions[obs.emit].isActive

\* C4: a step of the monitoring loop taken while now < t + cooldownPeriod,
\* t being the time of the latest emission for a position, neither starts
\* nor resolves a price read of that position, does not emit for it and
\* leaves its tracking entry as it was; hence an emission for a position
\* comes no earlier than cooldownPeriod after the previous one; and the loop
\* skips a position for cooldown only while now < t + cooldownPeriod, so
\* evaluation resumes on the first tick at or after that time.
C4_CooldownSkipsPosition ==
  [][\A id \in PositionIds :
       obs'.kind = "tick" =>
         /\ wasInCooldown(id, now) =>
              /\ obs'.reading # id
              /\ obs'.readId # id
              /\ obs'.emit # id
              /\ id \in DOMAIN activePositions /\ id \in DOMAIN activePositions' =>
                   activePositions'[id] = activePositions[id]
         /\ obs'.emit = id => lastEmitAt[id] = 0 \/ now >= lastEmitAt[id] + cooldownPeriod
         /\ id \in obs'.skipped => wasInCooldown(id, now)]_vars

\* a tick has skipped a position that is in cooldown
C4_Witness ==
  \E id \in obs.skipped : wasInCooldown(id, obs.at) /\ positions[id].isActive

\* C6: a position the monitoring loop visits with isActive false is removed,
\* entry and cooldown record, and the step neither reads its price nor
\* emits for it; the loop skips or reads only positions whose flag is true,
\* whatever their cooldown and counter; a position removed this way is never
\* tracked, read or emitted for again.
C6_InactiveRemovedUnconditionally ==
  /\ \A id \in obs.removed :
       /\ ~positions[id].isActive
       /\ id \notin DOMAIN activePositions
       /\ id \notin DOMAIN cooldownEndTimes
       /\ obs.reading # id
       /\ obs.emit # id
  /\ \A id \in obs.skipped \cup ({obs.reading} \ {0}) : positions[id].isActive
  /\ \A id \in tickRemoved :
       /\ id \notin DOMAIN activePositions
       /\ ~(tickPc = "reading" /\ tickCursor = id)
       /\ obs.readId # id
       /\ obs.emit # id
       /\ id \notin obs.skipped

\* a tick has removed an inactive position that was in cooldown
C6_Witness ==
  \E id \in obs.removed : wasInCooldown(id, obs.at)

(***************************************************************************)
(* Claims about LoomBot, checked under SpecBot.                            *)
(***************************************************************************)
OpenPositions(m) == {id \in DOMAIN chainPos : chainPos[id].open /\ chainPos[id].marketId = m}

\* C1: at no time does the wallet hold two unsettled liquidity positions on
\* chain for the same market.
C1_NoDoubleCreate ==
  \A m \in Markets : Cardinality(OpenPositions(m)) <= 1

\* C2: when the existing-position check of an attestation run resolves
\* while the wallet holds an unsettled position of the market, the run ends
\* there (getCurrentLPPosition non-null, or the read rejected) and the chain
\* is not written; and the attestation run mints only when the wallet holds
\* no unsettled position of the market.
C2_SecondRunRejectedBeforeWrite ==
  [][/\ (/\ att.pc = "getCurrentLPPosition"
         /\ att' # att
         /\ restarts' = restarts
         /\ OpenPositions(att.marketId) # {})
        => /\ att'.pc = "done"
           /\ att'.result \in {"existingPosition", "failed"}
           /\ chainPos' = chainPos
     /\ (att.pc = "createLiquidityPosition" /\ att' # att /\ chainPos' # chainPos)
        => OpenPositions(att.marketId) = {}]_vars

\* after a restart, a second run has been rejected by the check because of
\* the position the first run minted
C2_Witness ==
  /\ restarts >= 1
  /\ att.pc = "done"
  /\ att.result = "existingPosition"
  /\ \E id \in OpenPositions(att.marketId) : chainPos[id].by = "attestation"

NoOperationInFlight ==
  /\ att.pc \in {"none", "done"}
  /\ \A h \in HandlerSlots : handlers[h].pc = "free"

\* C5: whenever no create, close or adjust operation is in flight, a
\* position object created by the LPManager has an entry in the tracker if
\* and only if its isActive flag is true.
C5_TrackedIffActive ==
  NoOperationInFlight =>
    \A id \in DOMAIN positions : id \in DOMAIN activePositions <=> positions[id].isActive

(***************************************************************************)
(* Claims about the clamp and the fallbacks of priceToTicks, checked under *)
(* SpecPrice.                                                              *)
(***************************************************************************)
ClampedLower == IF pmRet.range.snappedLower >= pmArgs.minTick
                THEN pmRet.range.snappedLower ELSE pmArgs.minTick
ClampedUpper == IF pmRet.range.snappedUpper <= pmArgs.maxTick
                THEN pmRet.range.snappedUpper ELSE pmArgs.maxTick

\* C11: with market bounds supplied, priceToTicks returns exactly
\* [marketMinTick, marketMaxTick] when clamping the snapped range to the
\* bounds inverts it, and otherwise [max(lowerTick, marketMinTick),
\* min(upperTick, marketMaxTick)].
C11_ClampInversionReturnsMarketBounds ==
  P2TCalled /\ pmArgs.hasBounds =>
    IF ClampedLower >= ClampedUpper
    THEN /\ pmRet.range.lowerTick = pmArgs.minTick
         /\ pmRet.range.upperTick = pmArgs.maxTick
    ELSE /\ pmRet.range.lowerTick = ClampedLower
         /\ pmRet.range.upperTick = ClampedUpper

\* the computed range lies entirely outside valid bounds, which are returned
C11_Witness ==
  /\ P2TCalled
  /\ pmArgs.hasBounds
  /\ pmArgs.minTick < pmArgs.maxTick
  /\ pmRet.range.snappedUpper < pmArgs.minTick
  /\ pmRet.range.lowerTick = pmArgs.minTick
  /\ pmRet.range.upperTick = pmArgs.maxTick

InvalidTickRange == pmRet.range.path \in {"catchMarketBounds", "catchDefaultRange"}

\* C12 as stated: when lowerTick >= upperTick after snapping and clamping,
\* the call fails and returns no range.
C12_Original ==
  P2TCalled /\ InvalidTickRange => pmRet.threw

\* C12: when lowerTick >= upperTick after snapping and clamping, the error
\* is caught inside priceToTicks and the call returns a range: the market
\* bounds as given when they were supplied, otherwise usable ticks within
\* half a spacing of currentTick - 1000 and currentTick + 1000; this is the
\* case exactly when no bounds are given and the snapped range is collapsed,
\* or the bounds are given with min >= max.
C12_InvalidTickRangeIsCaught ==
  P2TCalled =>
    /\ ~pmRet.threw
    /\ InvalidTickRange <=>
         IF pmArgs.hasBounds THEN pmArgs.minTick >= pmArgs.maxTick
         ELSE pmRet.range.snappedLower >= pmRet.range.snappedUpper
    /\ InvalidTickRange /\ pmArgs.hasBounds =>
         /\ pmRet.range.lowerTick = pmArgs.minTick
         /\ pmRet.range.upperTick = pmArgs.maxTick
    /\ InvalidTickRange /\ ~pmArgs.hasBounds =>
         /\ IsUsableTick(pmRet.range.lowerTick)
         /\ IsUsableTick(pmRet.range.upperTick)
         /\ Abs(pmRet.range.lowerTick - (pmArgs.currentTick - 1000)) <= tickSpacing \div 2
         /\ Abs(pmRet.range.upperTick - (pmArgs.currentTick + 1000)) <= tickSpacing \div 2

\* invalid market bounds have been returned by the catch block
C12_Witness ==
  /\ P2TCalled
  /\ pmRet.range.path = "catchMarketBounds"
  /\ pmArgs.minTick >= pmArgs.maxTick

\* C13: the range priceToTicks returns always satisfies
\* lowerTick < upperTick.
C13_ReturnedRangeIsUsable ==
  P2TCalled => pmRet.range.lowerTick < pmRet.range.upperTick

(***************************************************************************)
(* Claims about adjustLPPosition and closeLPPosition, checked under        *)
(* SpecBot.                                                                *)
(***************************************************************************)
ClosePcs == {"getPosition", "closeLiquidityPosition", "closeWait"}
OpenPcs == {"allowance", "approve", "approveWait", "createLiquidityPosition", "createWait"}
OpenPositionsNext(m) ==
  {id \in DOMAIN chainPos' : chainPos'[id].open /\ chainPos'[id].marketId = m}

\* C14: an adjustment submits its create transaction only when the old
\* position is no longer open on chain; an adjustment that fails in its
\* close step ends with an error and without a create; an adjustment that
\* fails in its open step leaves the old position closed and the market
\* without an open position.
C14_CloseThenOpen ==
  [][\A h \in HandlerSlots :
       LET old == handlers[h].position
       IN  restarts' = restarts =>
             /\ (handlers[h].pc = "createLiquidityPosition" /\ handlers'[h].pc = "createWait")
                  => ~chainPos[old].open
             /\ (handlers[h].pc \in ClosePcs /\ handlers'[h].pc = "free")
                  => /\ obs'.error = old
                     /\ DOMAIN chainPos' = DOMAIN chainPos
             /\ (handlers[h].pc \in OpenPcs /\ handlers'[h].pc = "free" /\ obs'.error = old)
                  => /\ ~chainPos'[old].open
                     /\ OpenPositionsNext(positions[old].marketId) = {}]_vars

\* C15: when an adjustment ends with an error, the monitoring loop keeps
\* running and the position of the adjustment is still tracked, with the
\* tracking entry it had.
C15_FailedAdjustmentKeepsPosition ==
  [][obs'.error # 0
       => /\ trackerIsRunning' = trackerIsRunning
          /\ obs'.error \in DOMAIN activePositions'
          /\ obs'.error \in DOMAIN activePositions
          /\ activePositions'[obs'.error] = activePositions[obs'.error]]_vars

\* C16: closeLPPosition returns without error, without a transaction,
\* without a change of the entity and without positionClosed when the chain
\* record is not an unsettled liquidity position; an entity becomes
\* inactive, and leaves the tracker by positionClosed, only in the step in
\* which the wait for its mined close transaction resolves; a close that
\* fails leaves the entity as it was and ends the adjustment with the error.
C16_CloseNoOpOrConfirmed ==
  [][/\ \A h \in HandlerSlots :
       LET old == handlers[h].position
       IN  restarts' = restarts =>
             /\ (handlers[h].pc = "getPosition" /\ handlers'[h].pc = "allowance")
                  => /\ ~chainPos[old].open
                     /\ chainPos' = chainPos
                     /\ positions' = positions
                     /\ activePositions' = activePositions
                     /\ obs'.error = 0
             /\ (handlers[h].pc = "getPosition" /\ handlers'[h].pc = "closeLiquidityPosition")
                  => chainPos[old].open /\ chainPos' = chainPos /\ positions' = positions
             /\ (handlers[h].pc = "closeLiquidityPosition" /\ handlers'[h].pc = "closeWait")
                  => ~chainPos'[old].open /\ positions' = positions
             /\ (handlers[h].pc = "closeWait" /\ handlers'[h].pc = "allowance")
                  => /\ ~chainPos[old].open
                     /\ ~positions'[old].isActive
                     /\ old \notin DOMAIN activePositions'
             /\ (handlers[h].pc \in ClosePcs /\ handlers'[h].pc = "free")
                  => positions' = positions /\ obs'.error = old
    /\ \A id \in DOMAIN positions \cap DOMAIN positions' :
         (positions[id].isActive /\ ~positions'[id].isActive)
           => \E h \in HandlerSlots :
                /\ handlers[h].position = id
                /\ handlers[h].pc = "closeWait"
                /\ handlers'[h].pc = "allowance"]_vars

\* an adjustment went on to createLPPosition with its entity still active:
\* closeLPPosition found the position closed on chain and returned
C16_Witness ==
  \E h \in HandlerSlots :
    /\ handlers[h].pc = "allowance"
    /\ positions[handlers[h].position].isActive
    /\ ~chainPos[handlers[h].position].open

(***************************************************************************)
(* Claims about createLPPosition, checked under SpecBot.                   *)
(***************************************************************************)
\* one step of a createLPPosition call from pc to pcNext
ApprovalProtocol(pc, pcNext) ==
  /\ (pc = "allowance" /\ pcNext = "approve") => allowance < requiredAmount
  /\ (pc = "allowance" /\ pcNext = "createLiquidityPosition") => allowance >= requiredAmount
  /\ (pc = "approve" /\ pcNext = "approveWait") => allowance' = MaxUint256
  /\ (pcNext = "approveWait" /\ pc # pcNext) => pc = "approve"
  /\ (pcNext = "createLiquidityPosition" /\ pc # pcNext) => pc \in {"allowance", "approveWait"}
  /\ (pcNext \in {"wait", "createWait"} /\ pc # pcNext) => pc = "createLiquidityPosition"

\* C17: in every createLPPosition the approve transaction is submitted
\* exactly when the allowance read is below the required amount, it sets
\* the allowance to MaxUint256, nothing else raises the allowance, and the
\* createLiquidityPosition transaction is submitted only after a sufficient
\* allowance was read or the wait for the approval resolved.
C17_ApproveIffAllowanceBelowRequired ==
  [][/\ ApprovalProtocol(att.pc, att'.pc)
     /\ \A h \in HandlerSlots : ApprovalProtocol(handlers[h].pc, handlers'[h].pc)
     /\ allowance' > allowance
          => /\ allowance' = MaxUint256
             /\ \/ att.pc = "approve" /\ att'.pc = "approveWait"
                \/ \E h \in HandlerSlots :
                     handlers[h].pc = "approve" /\ handlers'[h].pc = "approveWait"
     /\ DOMAIN chainPos' # DOMAIN chainPos
          => \/ att.pc = "createLiquidityPosition" /\ att'.pc = "wait"
             \/ \E h \in HandlerSlots :
                  handlers[h].pc = "createLiquidityPosition" /\ handlers'[h].pc = "createWait"]_vars

\* the creation of the attestation run found a sufficient allowance and
\* used it up; the creation of an adjustment then had its approval mined
C17_Witness ==
  /\ allowance = MaxUint256
  /\ \E h \in HandlerSlots : handlers[h].pc = "approveWait"

MintLogs(logs) ==
  {i \in DOMAIN logs : logs[i].from = ZeroAddress /\ logs[i].to = WalletAddress}

\* C18: when the wait for a creation transaction resolves with a receipt
\* that holds a Transfer from the zero address to the wallet, the entity of
\* that token id is created active and positionCreated is emitted for it
\* (it is tracked); when the receipt holds no such Transfer, the call fails,
\* no entity is created and nothing is tracked.
C18_EntityFromMintTransfer ==
  [][obs'.kind = "receipt"
       => IF MintLogs(obs'.receipt) # {}
          THEN /\ \E i \in MintLogs(obs'.receipt) : obs'.created = obs'.receipt[i].tokenId
               /\ obs'.created \in DOMAIN positions'
               /\ obs'.created \notin DOMAIN positions
               /\ positions'[obs'.created].isActive
               /\ obs'.created \in DOMAIN activePositions'
               /\ obs'.error = 0
               /\ att' # att => att'.result = "created"
          ELSE /\ obs'.created = 0
               /\ positions' = positions
               /\ activePositions' = activePositions
               /\ att' # att => att'.result = "failed"
               /\ att' = att => obs'.error # 0]_vars

\* a confirmed creation whose receipt holds Transfer logs, none of them a
\* mint to the wallet: the call failed
C18_Witness ==
  /\ obs.kind = "receipt"
  /\ obs.receipt # <<>>
  /\ MintLogs(obs.receipt) = {}
  /\ obs.created = 0

\* C19: a createLiquidityPosition transaction is submitted only for a market
\* that is not settled and whose end time had not passed when the open was
\* decided: for the open step of an adjustment, when the adjustment started.
C19_NoCreateForSettledOrExpired ==
  [][/\ (att.pc = "createLiquidityPosition" /\ att'.pc = "wait")
          => ~marketSettled[att.marketId]
     /\ \A h \in HandlerSlots :
          (handlers[h].pc = "createLiquidityPosition" /\ handlers'[h].pc = "createWait")
            => /\ ~marketSettled[positions[handlers[h].position].marketId]
               /\ handlers[h].startedAt <= endTime[positions[handlers[h].position].marketId]]_vars

\* C20: the number of tracked positions never exceeds maxPositions.
C20_TrackedWithinMaxPositions ==
  Cardinality(DOMAIN activePositions) <= maxPositions

(***************************************************************************)
(* Claims about MarketLPAgent.runOnce and the loop of main, checked under  *)
(* SpecAgent.                                                              *)
(***************************************************************************)
\* C21: when the balance read of a market resolves with less than the
\* required amount, runOnce returns in that step without an error and
\* without a creation, so neither that market nor a later one of the batch
\* gets a creation in this run; when the balance suffices the market goes
\* on to its creation; when the balance read fails the same market goes on
\* to its creation as well.
C21_InsufficientCollateralStopsBatch ==
  [][/\ (agent.pc = "getCollateralBalance" /\ agent' # agent)
          => /\ (agObs'.balanceRead = "ok" /\ balance < requiredAmount)
                  => /\ agObs'.returned
                     /\ ~agObs'.threw
                     /\ agent'.pc = "sleep"
                     /\ chainPos' = chainPos
             /\ (agObs'.balanceRead = "ok" /\ balance >= requiredAmount)
                  => agent'.pc = "predictMarket" /\ agent'.i = agent.i
             /\ agObs'.balanceRead = "failed"
                  => agent'.pc = "predictMarket" /\ agent'.i = agent.i
     /\ DOMAIN chainPos' # DOMAIN chainPos
          => /\ agent.pc = "createLPPosition"
             /\ chainPos'[nextTokenId].marketId = agent.markets[agent.i]
     /\ (agent.pc \notin {"start", "sleep", "query"} /\ agent'.pc \notin {"sleep"})
          => agent'.markets = agent.markets /\ agent'.i >= agent.i]_vars

\* runOnce returned at a balance read that showed too little collateral,
\* with a later market of the batch left
C21_Witness ==
  /\ agObs.kind = "getCollateralBalance"
  /\ agObs.balanceRead = "ok"
  /\ agObs.returned
  /\ agObs.remaining # {}
  /\ agent.pc = "sleep"

\* C22: a market whose creation was halted for insufficient collateral is
\* considered again by a later runOnce: when the query of a run resolves
\* while the balance suffices, every halted market that is not settled, not
\* expired and without a position is among the markets of the run.
C22_HaltedMarketConsideredAgain ==
  [][(agent.pc = "query" /\ agent' # agent /\ ~agObs'.threw)
       => \A m \in haltedMarkets :
            (/\ balance >= requiredAmount
             /\ ~api[m].settled
             /\ ~isExpired(m)
             /\ getCurrentLPPosition(chainPos, m) = 0)
              => m \in agObs'.considered]_vars

\* C23: when a call made for one market of the batch throws, the scan goes
\* on: no market of the batch is left unprocessed by the run.
C23_MarketErrorDoesNotAbortScan ==
  [][(agent.pc \notin {"start", "sleep", "query"} /\ agent' # agent /\ agObs'.threw)
       => agObs'.remaining = {}]_vars

\* C25: the process never exits while a run waits for the confirmation of
\* a transaction it has submitted.
C25_ShutdownLetsTickFinish ==
  ~(exited /\ agent.pc = "wait")

(***************************************************************************)
(* Claims about the errors of the monitoring loop, checked under           *)
(* SpecTracker.                                                            *)
(***************************************************************************)
\* C24: when the market-data read of one position fails, its tracking
\* entry is left as it was and the loop goes on in the same step: it
\* reads the next tracked position that is active and not in cooldown, or,
\* when there is none, ends the tick and sets the timer of the next one.
C24_FailedReadDoesNotStopLoop ==
  [][(tickPc = "reading" /\ obs'.kind = "tick" /\ obs'.outcome = "fail")
       => LET failed == obs'.readId
              rest == {id \in DOMAIN activePositions :
                         /\ id > failed
                         /\ positions[id].isActive
                         /\ ~isInCooldown(cooldownEndTimes, id, now)}
          IN  /\ failed = tickCursor
              /\ obs'.emit = 0
              /\ failed \in DOMAIN activePositions
                   => /\ failed \in DOMAIN activePositions'
                      /\ activePositions'[failed] = activePositions[failed]
              /\ IF rest = {}
                 THEN /\ tickPc' = "idle"
                      /\ trackerIsRunning => nextTickAt' = now + 1
                 ELSE /\ tickPc' = "reading"
                      /\ tickCursor' = Lowest(rest)
                      /\ obs'.reading = Lowest(rest)]_vars

\* the read of one position failed and the loop went on to read another
C24_Witness ==
  /\ obs.kind = "tick"
  /\ obs.outcome = "fail"
  /\ obs.reading # 0
  /\ tickPc = "reading"

(***************************************************************************)
(* Claims about concurrency, checked under SpecBot.                        *)
(***************************************************************************)
InProgress ==
  {h \in HandlerSlots : handlers[h].pc # "free"}

\* C26: at most one create, close or adjust sequence is in progress at any
\* time: at most one adjustment, and none while an attestation run is
\* between its first chain call and its end.
C26_OneMutationAtATime ==
  Cardinality(InProgress) + (IF att.pc \in {"none", "done"} THEN 0 ELSE 1) <= 1

(***************************************************************************)
(* Claims about the timers of the tracker, checked under SpecLifecycle.    *)
(***************************************************************************)
\* C27: after any sequence of start(), stop() and timer firings at most
\* one checkAllPositions run is in progress and at most one monitoring
\* timer is pending.
C27_TicksNeverOverlap ==
  /\ runsInProgress <= 1
  /\ Cardinality(pendingTimers) <= 1

\* C28: every position entity the coordinator produces has lowerTick <
\* upperTick with both ticks multiples of the tick spacing; here for the
\* entity getCurrentLPPosition returns when it finds an existing position.
C28_EntityRangeIsUsable ==
  obs.kind = "existingPosition" =>
    /\ obs.entity.lowerTick < obs.entity.upperTick
    /\ obs.entity.lowerTick % tickSpacing = 0
    /\ obs.entity.upperTick % tickSpacing = 0

\* C29: on the attestation path, for the same targetPrice and
\* concentrationRange, the lower and upper prices calculatePriceRange reports
\* equal the price bounds from which priceToTicks derives its ticks.
C29_RangeMatchesTickBounds ==
  pmOp = "attestationRange" /\ pmRet.done =>
    /\ pmRet.priceRange.lower = pmRet.bounds.lowerPrice
    /\ pmRet.priceRange.upper = pmRet.bounds.upperPrice

\* C30: when an adjustment has closed the old position and its new position is
\* recorded, the stored targetPrice of the new position is the target price
\* calculated from the latest attestation.
C30_AdjustedTargetFromAttestation ==
  [][\A h \in HandlerSlots :
       (handlers[h].pc = "createWait" /\ handlers'[h].pc # "createWait"
        /\ hasProcessedFirstAttestation)
       => \A id \in DOMAIN positions' \ DOMAIN positions :
            positions'[id].targetPrice = attestedTargetPrice]_vars

\* C31: predictMarket yields a probability in [0,1] -- the clamped model
\* output, and 0.5 when the output is non-finite or cannot be parsed -- so
\* likelihoodToPrice never fails with InvalidLikelihood on the market scan.
C31_OracleYieldsProbability ==
  /\ agObs.kind # "invalidLikelihood"
  /\ agent.pc = "getMarketData" => isValidLikelihood(agent.likelihood)
  /\ agObs.kind = "predictMarket" /\ ~agObs.threw =>
       /\ (agObs.content.parse \in {"throws", "null"}
           \/ ~isFinite(Number(agObs.content.probabilityYes)))
          => agent.likelihood = Num(500000)
       /\ agObs.content.probabilityYes = [type |-> "number", v |-> 300000]
          => agent.likelihood = Num(300000)

C31_Witness ==
  /\ agent.pc = "getMarketData"
  /\ agObs.kind = "predictMarket"
  /\ agObs.content.probabilityYes = [type |-> "number", v |-> 1500000]
  /\ agent.likelihood = Num(PriceScale)

DecAbs(x) == IF x < 0 THEN -x ELSE x

\* |a - b| <= 1e-6 * b for two nine-digit decimals
WithinRelativeTolerance(a, b) ==
  CASE a.m = 0 \/ b.m = 0 -> a.m = b.m
    [] a.e = b.e -> DecAbs(a.m - b.m) <= b.m \div 1000000
    [] a.e = b.e + 1 -> DecAbs(a.m - b.m \div 10) <= b.m \div 10000000
    [] a.e = b.e - 1 -> DecAbs(a.m \div 10 - b.m) <= b.m \div 1000000
    [] OTHER -> FALSE

\* C32: for every tick of the pool, sqrtPriceToPrice(tickToSqrtPriceX96(t))
\* equals 1.0001^t within a relative tolerance of 1e-6.
C32_TickRoundTrip ==
  pmOp = "roundTrip" /\ pmRet.done =>
    WithinRelativeTolerance(pmRet.price, tickToPrice(pmArgs.tick))

C32_Witness ==
  /\ pmOp = "roundTrip"
  /\ pmRet.done
  /\ pmArgs.tick = -887272
  /\ pmRet.sqrtPriceX96.e = 1
  /\ pmRet.sqrtPriceX96.m \div 10 = 42951287

\* C33: the range createLPPosition submits after its clamp satisfies
\* marketMinTick <= lowerTick < upperTick <= marketMaxTick for every range
\* the caller supplies, and the returned entity records the submitted ticks.
C33_SubmittedRangeWithinBounds ==
  pmOp = "createLPPosition" /\ pmRet.done =>
    /\ pmArgs.minTick <= pmRet.liquidityParams.lowerTick
    /\ pmRet.liquidityParams.lowerTick < pmRet.liquidityParams.upperTick
    /\ pmRet.liquidityParams.upperTick <= pmArgs.maxTick
    /\ pmRet.position = pmRet.liquidityParams

\* C34: the cooldown carries over an adjustment at market level: when
\* positionNeedsAdjustment is emitted for a position that replaced an adjusted
\* position of the same market, cooldownPeriod has elapsed since the
\* emission for the replaced position.
C34_CooldownCarriesOverAdjustment ==
  obs.kind = "tick" /\ obs.emit # 0 /\ hasProcessedFirstAttestation =>
    \A j \in DOMAIN positions \ {obs.emit} :
      (/\ positions[j].marketId = positions[obs.emit].marketId
       /\ lastEmitAt[j] # 0
       /\ j < obs.emit
       /\ j \notin DOMAIN activePositions)
      => obs.at >= lastEmitAt[j] + cooldownPeriod

\* C35: between monitoring checks every tracked position's
\* consecutiveDeviations counter is 0 or 1; the check that reaches the
\* threshold emits the request and leaves the counter at 0.
C35_CounterBelowThreshold ==
  /\ \A id \in DOMAIN activePositions :
       /\ activePositions[id].consecutiveDeviations >= 0
       /\ activePositions[id].consecutiveDeviations < getRequiredConsecutiveDeviations
  /\ (obs.kind = "tick" /\ obs.emit # 0 /\ obs.emit \in DOMAIN activePositions)
     => activePositions[obs.emit].consecutiveDeviations = 0

C35_Witness ==
  /\ obs.kind = "tick"
  /\ obs.emit # 0
  /\ obs.prev = "dev"
  /\ obs.emit \in DOMAIN activePositions
  /\ activePositions[obs.emit].consecutiveDeviations = 0
  /\ \E id \in DOMAIN activePositions : activePositions[id].consecutiveDeviations = 1

\* C36: a failed market-data read in checkPosition leaves the position's
\* consecutiveDeviations, lastChecked and cooldown unchanged and emits
\* nothing; so a deviating read whose latest successful predecessor deviated
\* triggers the adjustment, whether or not reads failed in between.
C36_FailedReadKeepsState ==
  /\ [][(tickPc = "reading" /\ obs'.kind = "tick" /\ obs'.outcome = "fail")
        => /\ obs'.readId = tickCursor
           /\ obs'.emit = 0
           /\ lastEmitAt' = lastEmitAt
           /\ prevRead' = prevRead
           /\ handlers' = handlers
           /\ tickCursor \in DOMAIN activePositions
              => /\ tickCursor \in DOMAIN activePositions'
                 /\ activePositions'[tickCursor] = activePositions[tickCursor]
           /\ tickCursor \in DOMAIN cooldownEndTimes <=> tickCursor \in DOMAIN cooldownEndTimes'
           /\ tickCursor \in DOMAIN cooldownEndTimes
              => cooldownEndTimes'[tickCursor] = cooldownEndTimes[tickCursor]]_vars
  /\ [](obs.kind = "tick" /\ obs.outcome = "dev" /\ obs.prev = "dev" /\ obs.failedBefore
        => obs.emit = obs.readId)

C36_Witness ==
  /\ obs.kind = "tick"
  /\ obs.outcome = "dev"
  /\ obs.prev = "dev"
  /\ obs.failedBefore
  /\ obs.emit = obs.readId
  /\ obs.emit # 0

(***************************************************************************)
(* Claims about the attestation handler and the bot's start and stop,      *)
(* checked under SpecLoomBot.                                              *)
(***************************************************************************)
AttestationFrame ==
  UNCHANGED <<chainVars, att, handlers, positions, trackerVars, lpManager,
              hasProcessedFirstAttestation, processedAttestations>>

C38_TrackerRunsWithBot ==
  botIsRunning /\ lpManager => trackerIsRunning

(***************************************************************************)
(* Claims about retry, checked under SpecRetry.                            *)
(***************************************************************************)
RetryOutcomes == retryCall.outcomes
FirstSuccess ==
  {i \in 1..Len(RetryOutcomes) : RetryOutcomes[i].ok /\ \A j \in 1..(i - 1) : ~RetryOutcomes[j].ok}
RetrySafety ==
  /\ retryCall.calls <= (IF retryCall.maxAttempts > 0 THEN retryCall.maxAttempts ELSE 0)
  /\ \A i \in FirstSuccess : i = Len(RetryOutcomes) /\ retryCall.calls = i
  /\ retryCall.promise.state = "resolved" =>
       \E i \in FirstSuccess : retryCall.promise.value = RetryOutcomes[i].value
  /\ FirstSuccess # {} /\ retryCall.pc = "returned" => retryCall.promise.state = "resolved"
  /\ retryCall.promise.state = "rejected" =>
       /\ FirstSuccess = {}
       /\ Len(RetryOutcomes) = retryCall.maxAttempts
       /\ retryCall.promise.value = RetryOutcomes[Len(RetryOutcomes)].value

\* C39: retry(fn, maxAttempts, delay) always settles: it calls fn at most
\* maxAttempts times, never again after the first success, resolves with
\* the first successful result and otherwise rejects with the error of the
\* last attempt, for every integer maxAttempts including values <= 0.
C39_RetryAlwaysSettles ==
  /\ []RetrySafety
  /\ <>(retryCall.promise.state # "pending")

=============================================================================
